---- MODULE Spec2Model ----
(***************************************************************************)
(* A model of the segmentation and reconciliation core of pdf_tool.py,    *)
(* and of the worker threads of gui.py.                                    *)
(*                                                                         *)
(* Python values are modelled as follows.                                  *)
(*   str             a sequence of one-character strings; a few long       *)
(*                   literals of the source are single tokens              *)
(*   Dict[str, str]  (the answer and modification mappings) a function     *)
(*                   from key strings to value strings                     *)
(*   values of the output structure, whose types validate_output_structure *)
(*                   inspects: records [t |-> type, v |-> payload]         *)
(***************************************************************************)
EXTENDS Integers, Sequences, FiniteSets, TLC

\* ------------------------------------------------------------------ bounds

\* Largest number of Questions handed to combine.
MaxQ == 2

\* Largest number of table-runs of a text, and of rows of a run.
MaxRuns == 2
MaxRows == 3

\* Largest number of lines of an answer text.
MaxMdLines == 3

\* Largest number of Questions in one list handed to the validator.
MaxVQ == 2

\* Largest number of images on a page, and of Questions flushed on it, in a
\* call of _extract_images.
MaxImages == 2
MaxRanges == 2

\* Largest number of pages, and of lines, of a question document.
MaxPages == 2
MaxLines == 4

\* The FileSets of the folder, and the worker threads the buttons start.
MaxSets == 2
MaxWorkers == 2

\* ----------------------------------------------------------------- strings

\* The values of a sequence, as a set.
Range(s) == {s[i] : i \in DOMAIN s}

Digits == <<"0", "1", "2", "3", "4", "5", "6", "7", "8", "9">>

RECURSIVE PyStrOfInt(_)
\* str(n) for an int n >= 0: its decimal digits.
PyStrOfInt(n) ==
    IF n < 10 THEN <<Digits[n + 1]>>
    ELSE PyStrOfInt(n \div 10) \o <<Digits[(n % 10) + 1]>>

\* s.startswith(p)
StartsWith(s, p) == Len(s) >= Len(p) /\ SubSeq(s, 1, Len(p)) = p

\* White space, as str.strip() and the \s of a pattern see it.
Whitespace == {" ", "\t", "\n"}

RECURSIVE LStripSet(_, _)
\* s.lstrip(chars)
LStripSet(s, chars) ==
    IF s # <<>> /\ Head(s) \in chars THEN LStripSet(Tail(s), chars) ELSE s

RECURSIVE RStripSet(_, _)
\* s.rstrip(chars)
RStripSet(s, chars) ==
    IF s # <<>> /\ s[Len(s)] \in chars THEN RStripSet(SubSeq(s, 1, Len(s) - 1), chars) ELSE s

\* s.strip(chars)
StripSet(s, chars) == RStripSet(LStripSet(s, chars), chars)

\* s.strip()
Strip(s) == StripSet(s, Whitespace)

RECURSIVE Split(_, _)
\* s.split(sep) for a one-character sep: the pieces between the separators.
Split(s, sep) ==
    IF \A i \in DOMAIN s : s[i] # sep THEN <<s>>
    ELSE LET i == CHOOSE j \in DOMAIN s : s[j] = sep /\ \A k \in 1 .. (j - 1) : s[k] # sep
         IN  <<SubSeq(s, 1, i - 1)>> \o Split(SubSeq(s, i + 1, Len(s)), sep)

\* s.splitlines(): the lines of s, without the empty piece after a final
\* line break.
SplitLines(s) ==
    LET pieces == Split(s, "\n")
    IN  IF pieces[Len(pieces)] = <<>> THEN SubSeq(pieces, 1, Len(pieces) - 1) ELSE pieces

\* A character str.isdigit() takes for a digit and int() does not read: the
\* superscript two.
SuperscriptTwo == "U+00B2"

\* s.isdigit(), on the ASCII digits and the superscript two.
IsDigit(s) == s # <<>> /\ \A i \in DOMAIN s : s[i] \in Range(Digits) \cup {SuperscriptTwo}

\* Whether int(s) returns: it raises ValueError on the superscript two.
IntParses(s) == s # <<>> /\ \A i \in DOMAIN s : s[i] \in Range(Digits)

RECURSIVE PyIntOfStr(_)
\* int(s) for a string of ASCII digits.
PyIntOfStr(s) ==
    IF s = <<>> THEN 0
    ELSE 10 * PyIntOfStr(SubSeq(s, 1, Len(s) - 1))
         + (CHOOSE d \in 0 .. 9 : Digits[d + 1] = s[Len(s)])

\* ----------------------------------------------------------- Python values

PyInt(n) == [t |-> "int", v |-> n]
PyStr(s) == [t |-> "str", v |-> s]
PyList(s) == [t |-> "list", v |-> s]
PyDict(f) == [t |-> "dict", v |-> f]

EmptyDict == <<>>

\* d[k] = x on a dict payload (a function): adds or overwrites the key.
DictSet(f, k, x) == [kk \in (DOMAIN f) \cup {k} |-> IF kk = k THEN x ELSE f[kk]]

\* DictUpdate in which an entry of f survives one of g on the same key.
DictUpdateKeepFirst(f, g) ==
    [k \in (DOMAIN f) \cup (DOMAIN g) |-> IF k \in DOMAIN f THEN f[k] ELSE g[k]]

\* dict.update: the entries of g override those of f.
DictUpdate(f, g) ==
    [k \in (DOMAIN f) \cup (DOMAIN g) |-> IF k \in DOMAIN g THEN g[k] ELSE f[k]]

\* ------------------------------------------------------------ JSON on disk

RECURSIVE JsonDump(_)
\* json.dump: the JSON document of a Python value.  ints become numbers, strs
\* strings, lists arrays and dicts objects (their keys are strs already).
JsonDump(x) ==
    CASE x.t = "int" -> [j |-> "number", v |-> x.v]
      [] x.t = "str" -> [j |-> "string", v |-> x.v]
      [] x.t = "list" -> [j |-> "array", v |-> [i \in DOMAIN x.v |-> JsonDump(x.v[i])]]
      [] x.t = "dict" -> [j |-> "object", v |-> [k \in DOMAIN x.v |-> JsonDump(x.v[k])]]

RECURSIVE JsonLoadNumbersAsStrings(_)
\* A reader that hands back every number as the str of its digits.
JsonLoadNumbersAsStrings(d) ==
    CASE d.j = "number" -> PyStr(PyStrOfInt(d.v))
      [] d.j = "string" -> PyStr(d.v)
      [] d.j = "array" -> PyList([i \in DOMAIN d.v |-> JsonLoadNumbersAsStrings(d.v[i])])
      [] d.j = "object" -> PyDict([k \in DOMAIN d.v |-> JsonLoadNumbersAsStrings(d.v[k])])

RECURSIVE JsonLoad(_)
\* json.load: the Python value of a JSON document.
JsonLoad(d) ==
    CASE d.j = "number" -> PyInt(d.v)
      [] d.j = "string" -> PyStr(d.v)
      [] d.j = "array" -> PyList([i \in DOMAIN d.v |-> JsonLoad(d.v[i])])
      [] d.j = "object" -> PyDict([k \in DOMAIN d.v |-> JsonLoad(d.v[k])])

\* ------------------------------------------------------------- the mappings

Letters == {<<"A">>, <<"B">>, <<"C">>, <<"D">>}

\* _is_valid_map, with the size check dropped.
IsValidMapNoSize(mapping, count) == \A k \in DOMAIN mapping : mapping[k] \in Letters

\* _is_valid_map: the mapping has `count` entries and only the letters A-D.
IsValidMap(mapping, count) ==
    IF Cardinality(DOMAIN mapping) # count THEN FALSE
    ELSE \A k \in DOMAIN mapping : mapping[k] \in Letters

\* OPT_MAP: the private-use glyphs U+E18C .. U+E18F and the full-width letters
\* U+FF21 .. U+FF24, each one character, named by its code point.
OPT_MAP ==
    [c \in {"U+E18C", "U+E18D", "U+E18E", "U+E18F", "U+FF21", "U+FF22", "U+FF23", "U+FF24"} |->
        CASE c \in {"U+E18C", "U+FF21"} -> "A"
          [] c \in {"U+E18D", "U+FF22"} -> "B"
          [] c \in {"U+E18E", "U+FF23"} -> "C"
          [] c \in {"U+E18F", "U+FF24"} -> "D"]

\* OPT_MAP.get(val, val) for a string val: only a one-character string is a key.
OptMapGet(val) ==
    IF Len(val) = 1 /\ val[1] \in DOMAIN OPT_MAP THEN <<OPT_MAP[val[1]]>> ELSE val

\* ------------------------------------------------------------ the segmenter

\* The data-URI prefix of an image, in two tokens: the part combine tests with
\* startswith, and the rest.
DataImage == <<"data:image">>
DataUriPrefix == <<"data:image", "/png;base64,">>

\* combine's rewrite of one image string.
NormalizeImage(img) ==
    IF StartsWith(img.v, DataImage) THEN img ELSE PyStr(DataUriPrefix \o img.v)

\* The Question dict parse_questions creates, with its images.
NewQuestion(id, text, images) ==
    PyDict([k \in {"id", "question", "options", "images"} |->
        CASE k = "id" -> PyInt(id)
          [] k = "question" -> PyStr(text)
          [] k = "options" -> PyDict(EmptyDict)
          [] k = "images" -> PyList(images)])

\* None, for last_opt.
NoneVal == "None"

\* The number of leading digits of s.
DigitPrefixLen(s) ==
    CHOOSE n \in 0 .. Len(s) :
        /\ \A i \in 1 .. n : s[i] \in Range(Digits)
        /\ (n < Len(s) => s[n + 1] \notin Range(Digits))

\* The most digits QUESTION_START takes for an id: \d{1,3}.
QuestionStartMaxDigits == 3

\* QUESTION_START.match(s): whether "^(\d{1,3})[\.\uff0e]\s*(.*)" matches.
QuestionStartMatches(s) ==
    LET n == DigitPrefixLen(s)
    IN  /\ 1 <= n
        /\ n <= QuestionStartMaxDigits
        /\ n < Len(s)
        /\ s[n + 1] \in {".", "U+FF0E"}

\* m.group(1) and m.group(2) of a match.
QuestionStartGroup1(s) == SubSeq(s, 1, DigitPrefixLen(s))
QuestionStartGroup2(s) ==
    LStripSet(SubSeq(s, DigitPrefixLen(s) + 2, Len(s)), Whitespace)

\* OPTION_PATTERN.match(s): "^[A-D][\.|\s]".
OptionPatternMatches(s) ==
    /\ Len(s) >= 2
    /\ s[1] \in {"A", "B", "C", "D"}
    /\ s[2] \in {".", "|"} \cup Whitespace

\* The tests of lines 115-119 (and 139-141, 162-163): the stripped line is a
\* bare integer equal to `expected`, or matches QUESTION_START with that id.
IsBareExpected(stripped, expected) ==
    IsDigit(stripped) /\ PyIntOfStr(stripped) = expected
IsStartExpected(stripped, expected) ==
    QuestionStartMatches(stripped) /\ PyIntOfStr(QuestionStartGroup1(stripped)) = expected

\* old += '\n' + stripped when old is non-empty, else old = stripped.
AppendText(old, stripped) ==
    IF old # <<>> THEN old \o <<"\n">> \o stripped ELSE stripped

\* A Question dict with its body, or one of its options, replaced.
WithQuestion(q, text) == PyDict(DictSet(q.v, "question", PyStr(text)))
WithOption(q, key, text) ==
    PyDict(DictSet(q.v, "options", PyDict(DictSet(q.v["options"].v, key, PyStr(text)))))

\* An option line whose marker is a key of OPT_MAP, and one that matches
\* OPTION_PATTERN.
IsGlyphOption(stripped) == stripped # <<>> /\ stripped[1] \in DOMAIN OPT_MAP
GlyphOptionKeyRaw(stripped) == stripped[1]
GlyphOptionKey(stripped) == OPT_MAP[stripped[1]]
GlyphOptionText(stripped) == Strip(SubSeq(stripped, 2, Len(stripped)))
AsciiOptionKey(stripped) == stripped[1]
AsciiOptionText(stripped) == Strip(SubSeq(stripped, 3, Len(stripped)))

\* Lines 120-130: what a carry-over line does to the previous Question.
CarryInto(prev, stripped) ==
    IF IsGlyphOption(stripped)
    THEN WithOption(prev, GlyphOptionKey(stripped), GlyphOptionText(stripped))
    ELSE IF OptionPatternMatches(stripped)
    THEN WithOption(prev, AsciiOptionKey(stripped), AsciiOptionText(stripped))
    ELSE WithQuestion(prev, AppendText(prev.v["question"].v, stripped))

\* Ordinary text that always goes to the body.
TextIntoBodyOnly(q, last_opt, stripped) ==
    WithQuestion(q, AppendText(q.v["question"].v, stripped))

\* Lines 153-160 and 184-191: a line that is ordinary text goes to the last
\* option when there is one and the line is not empty, else to the body.
TextInto(q, last_opt, stripped) ==
    IF last_opt # NoneVal /\ stripped # <<>>
    THEN WithOption(q, last_opt, q.v["options"].v[last_opt].v \o <<"\n">> \o stripped)
    ELSE WithQuestion(q, AppendText(q.v["question"].v, stripped))

RECURSIVE SortLines(_)
\* lines.sort(key=lambda l: (l[1], l[0])): a stable sort by (y0, x0).
SortLines(lines) ==
    IF lines = <<>> THEN <<>>
    ELSE LET Before(a, b) == a.y0 < b.y0 \/ (a.y0 = b.y0 /\ a.x0 < b.x0)
             i == CHOOSE j \in DOMAIN lines :
                      /\ \A k \in DOMAIN lines : ~Before(lines[k], lines[j])
                      /\ \A k \in 1 .. (j - 1) : Before(lines[j], lines[k])
         IN  <<lines[i]>> \o
             SortLines(SubSeq(lines, 1, i - 1) \o SubSeq(lines, i + 1, Len(lines)))

\* lines[idx:]
RestOfLines(lines, idx) == SubSeq(lines, idx + 1, Len(lines))

\* The last range, in order, that holds the centre: the loop of lines 88-90
\* without its break and with one list per image.
RangeOfImageLast(img, q_ranges) ==
    LET Holds(r) == 2 * r[1] <= img.rect[1] + img.rect[2]
                    /\ img.rect[1] + img.rect[2] <= 2 * r[2]
    IN  IF \E i \in DOMAIN q_ranges : Holds(q_ranges[i])
        THEN CHOOSE i \in DOMAIN q_ranges :
                 Holds(q_ranges[i]) /\ \A k \in (i + 1) .. Len(q_ranges) : ~Holds(q_ranges[k])
        ELSE 0

\* The first range, in order, that holds the centre of the image's rectangle
\* (lines 86-90), or 0 when none does.
RangeOfImage(img, q_ranges) ==
    LET Holds(r) == 2 * r[1] <= img.rect[1] + img.rect[2]
                    /\ img.rect[1] + img.rect[2] <= 2 * r[2]
    IN  IF \E i \in DOMAIN q_ranges : Holds(q_ranges[i])
        THEN CHOOSE i \in DOMAIN q_ranges :
                 Holds(q_ranges[i]) /\ \A k \in 1 .. (i - 1) : ~Holds(q_ranges[k])
        ELSE 0

\* _extract_images: the images of the page, grouped per range, each in
\* the order met and with the data-URI prefix.
ExtractImages(images, q_ranges) ==
    [idx \in DOMAIN q_ranges |->
        LET mine == SelectSeq(images, LAMBDA img : RangeOfImage(img, q_ranges) = idx)
        IN  [k \in DOMAIN mine |-> PyStr(DataUriPrefix \o mine[k].data)]]

\* Lines 196-197, were the groups zipped with questions[:len(img_groups)].
AttachImagesFirst(qs, img_groups) ==
    [i \in DOMAIN qs |->
        IF i <= Len(img_groups)
        THEN PyDict(DictSet(qs[i].v, "images", PyList(qs[i].v["images"].v \o img_groups[i])))
        ELSE qs[i]]

\* Lines 196-197: group k is appended to the images of the k-th of the last
\* len(img_groups) Questions; questions[-0:] is the whole list.
AttachImages(qs, img_groups) ==
    LET n == Len(img_groups)
        first == IF n = 0 \/ n > Len(qs) THEN 1 ELSE Len(qs) - n + 1
    IN  [i \in DOMAIN qs |->
            IF i >= first /\ (i - first + 1) <= n
            THEN PyDict(DictSet(qs[i].v, "images",
                     PyList(qs[i].v["images"].v \o img_groups[i - first + 1])))
            ELSE qs[i]]

\* ------------------------------------------------------------ the extractor

\* line.strip().startswith('|')
IsTableLine(line) == StartsWith(Strip(line), <<"|">>)

\* The cells of one table line (line 240).
Cells(line) ==
    LET parts == Split(StripSet(Strip(line), {"|"}), "|")
    IN  [i \in DOMAIN parts |-> Strip(parts[i])]

RECURSIVE TablesFrom(_, _)
\* The loop of _extract_md_tables from line i on: each maximal run of table
\* lines becomes one table, a list of rows of cells.
TablesFrom(lines, i) ==
    IF i > Len(lines) THEN <<>>
    ELSE IF IsTableLine(lines[i]) THEN
        LET stop == CHOOSE j \in (i + 1) .. (Len(lines) + 1) :
                        /\ \A k \in i .. (j - 1) : IsTableLine(lines[k])
                        /\ (j > Len(lines) \/ ~IsTableLine(lines[j]))
            rows == [k \in 1 .. (stop - i) |-> Cells(lines[i + k - 1])]
        IN  <<rows>> \o TablesFrom(lines, stop)
    ELSE TablesFrom(lines, i + 1)

\* _extract_md_tables
ExtractMdTables(md) == TablesFrom(SplitLines(md), 1)

\* rows[1:]: the rows after the first, which is skipped as a header.
DataRows(rows) == SubSeq(rows, 2, Len(rows))

RECURSIVE AnswerRowsMap(_, _)
\* The loop of lines 253-258 over the data rows: the mapping they leave.
AnswerRowsMap(rows, mapping) ==
    IF rows = <<>> THEN mapping
    ELSE LET cells == Head(rows) IN
         IF Len(cells) < 2 THEN AnswerRowsMap(Tail(rows), mapping)
         ELSE LET num == Strip(cells[1])
                  val == Strip(cells[2])
              IN  IF IsDigit(num) /\ val # <<>>
                  THEN AnswerRowsMap(Tail(rows), DictSet(mapping, num, OptMapGet(val)))
                  ELSE AnswerRowsMap(Tail(rows), mapping)

RECURSIVE BestAnswerTableLast(_, _)
\* The loop over the tables with >= for >: the last mapping with the most
\* entries.
BestAnswerTableLast(tables, best) ==
    IF tables = <<>> THEN best
    ELSE LET m == AnswerRowsMap(DataRows(Head(tables)), EmptyDict)
         IN  BestAnswerTableLast(Tail(tables),
                 IF Cardinality(DOMAIN m) >= Cardinality(DOMAIN best) THEN m ELSE best)

RECURSIVE BestAnswerTable(_, _)
\* The loop of lines 251-260 over the tables: the first mapping with the most
\* entries.
BestAnswerTable(tables, best) ==
    IF tables = <<>> THEN best
    ELSE LET m == AnswerRowsMap(DataRows(Head(tables)), EmptyDict)
         IN  BestAnswerTable(Tail(tables),
                 IF Cardinality(DOMAIN m) > Cardinality(DOMAIN best) THEN m ELSE best)

\* re.findall(r'[A-D\uff21-\uff24]', md)
FallbackLetterChars == {"A", "B", "C", "D", "U+FF21", "U+FF22", "U+FF23", "U+FF24"}

\* The letters of line 263 as they stand in the text, not normalized.
FallbackLettersRaw(md) ==
    LET hits == SelectSeq(md, LAMBDA c : c \in FallbackLetterChars)
    IN  [i \in DOMAIN hits |-> <<hits[i]>>]

\* The letters of line 263, in reading order.
FallbackLetters(md) ==
    LET hits == SelectSeq(md, LAMBDA c : c \in FallbackLetterChars)
    IN  [i \in DOMAIN hits |-> OptMapGet(<<hits[i]>>)]

\* _parse_answer_map
ParseAnswerMap(md) ==
    LET best == BestAnswerTable(ExtractMdTables(md), EmptyDict) IN
    IF DOMAIN best # {} THEN best
    ELSE LET letters == FallbackLetters(md)
         IN  [k \in {PyStrOfInt(i) : i \in DOMAIN letters} |->
                 letters[CHOOSE i \in DOMAIN letters : PyStrOfInt(i) = k]]

\* The last non-empty cell after the first (line 285), <<>> when all are empty.
LastValue(cells) ==
    LET vals == SelectSeq([i \in 1 .. (Len(cells) - 1) |-> Strip(cells[i + 1])],
                          LAMBDA c : c # <<>>)
    IN  IF vals = <<>> THEN <<>> ELSE vals[Len(vals)]

RECURSIVE ModRowsMap(_, _)
\* The loop of lines 278-288 over the data rows: the mapping they leave.
ModRowsMap(rows, mapping) ==
    IF rows = <<>> THEN mapping
    ELSE LET cells == Head(rows) IN
         IF Len(cells) < 2 THEN ModRowsMap(Tail(rows), mapping)
         ELSE IF ~IsDigit(Strip(cells[1])) THEN ModRowsMap(Tail(rows), mapping)
         ELSE IF LastValue(cells) = <<>> THEN ModRowsMap(Tail(rows), mapping)
         ELSE ModRowsMap(Tail(rows),
                  DictSet(mapping, Strip(cells[1]), OptMapGet(LastValue(cells))))

RECURSIVE BestModTable(_, _)
\* The loop of lines 276-290 over the tables: the first mapping with the most
\* entries.
BestModTable(tables, best) ==
    IF tables = <<>> THEN best
    ELSE LET m == ModRowsMap(DataRows(Head(tables)), EmptyDict)
         IN  BestModTable(Tail(tables),
                 IF Cardinality(DOMAIN m) > Cardinality(DOMAIN best) THEN m ELSE best)

\* The end of the run of characters of `chars` that starts at place i of md:
\* the place after its last character.
RunEnd(md, i, chars) ==
    CHOOSE j \in i .. (Len(md) + 1) :
        /\ \A k \in i .. (j - 1) : md[k] \in chars
        /\ (j > Len(md) \/ md[j] \notin chars)

\* Where a match of (\d+)\s*[\.\uff0e]\s*([A-D\uff21-\uff24]) that starts at
\* place i of md has its letter; 0 when there is no match at i.
ModPatternLetterAt(md, i) ==
    LET d == RunEnd(md, i, Range(Digits))
        s1 == RunEnd(md, d, Whitespace)
    IN  IF d = i \/ s1 > Len(md) \/ md[s1] \notin {".", "U+FF0E"} THEN 0
        ELSE LET s2 == RunEnd(md, s1 + 1, Whitespace)
             IN  IF s2 <= Len(md) /\ md[s2] \in FallbackLetterChars THEN s2 ELSE 0

RECURSIVE ModFallbackFrom(_, _, _)
\* The loop of lines 294-295 from place i of md on: re.finditer goes through
\* the matches from left to right, each search starting where the last match
\* ended.
ModFallbackFrom(md, i, mapping) ==
    IF i > Len(md) THEN mapping
    ELSE LET at == ModPatternLetterAt(md, i) IN
         IF at = 0 THEN ModFallbackFrom(md, i + 1, mapping)
         ELSE ModFallbackFrom(md, at + 1,
                  DictSet(mapping, SubSeq(md, i, RunEnd(md, i, Range(Digits)) - 1),
                          OptMapGet(<<md[at]>>)))

\* _parse_mod_map
ParseModMap(md) ==
    LET best == BestModTable(ExtractMdTables(md), EmptyDict) IN
    IF DOMAIN best # {} THEN best
    ELSE ModFallbackFrom(md, 1, EmptyDict)

\* --------------------------------------------------------- output validator

\* The per-Question checks of validate_output_structure, for an answer that
\* can be looked up in a set (a str or an int).
ValidQuestion(q) ==
    IF q.t # "dict" THEN FALSE
    ELSE IF "id" \notin DOMAIN q.v \/ "answer" \notin DOMAIN q.v
            \/ "question" \notin DOMAIN q.v THEN FALSE
    ELSE IF q.v["id"].t # "int" THEN FALSE
    ELSE IF ~(q.v["answer"].t = "str" /\ q.v["answer"].v \in Letters) THEN FALSE
    ELSE IF "options" \in DOMAIN q.v /\ q.v["options"].t # "dict" THEN FALSE
    ELSE IF "images" \in DOMAIN q.v /\ q.v["images"].t # "list" THEN FALSE
    ELSE TRUE

\* The checks on one source's question list, were the loop of line 319 to stop
\* after the first Question.
ValidSourceFirstOnly(questions) ==
    IF questions.t # "list" \/ questions.v = <<>> THEN FALSE
    ELSE ValidQuestion(questions.v[1])

\* The checks on one source's question list.
ValidSource(questions) ==
    IF questions.t # "list" \/ questions.v = <<>> THEN FALSE
    ELSE \A i \in DOMAIN questions.v : ValidQuestion(questions.v[i])

\* The checks on one subject's sources.
ValidSubject(sources) ==
    IF sources.t # "dict" \/ DOMAIN sources.v = {} THEN FALSE
    ELSE \A src \in DOMAIN sources.v : ValidSource(sources.v[src])

\* validate_output_structure
ValidateOutputStructure(data) ==
    IF data.t # "dict" THEN FALSE
    ELSE IF "subjects" \notin DOMAIN data.v THEN FALSE
    ELSE LET subjects == data.v["subjects"] IN
         IF subjects.t # "dict" \/ DOMAIN subjects.v = {} THEN FALSE
         ELSE \A subj \in DOMAIN subjects.v : ValidSubject(subjects.v[subj])

\* ------------------------------------------------------------------- state

NoError == "no error"

VARIABLES
    questions,  \* combine's `questions`: a sequence of Question dicts
    ans_map,    \* combine's `ans_map`
    mod_map,    \* combine's `mod_map`
    mapping,    \* combine's `mapping`; empty until one is selected
    c_pc,       \* where combine is: "select", "assign", "validate", "write",
                \* "reload", "returned" or "raised"
    qi,         \* index of the Question the loop of combine is at
    c_err,      \* the message of the ValueError combine raised, or NoError
    c_out,      \* combine's `out`: <<>> until it is built, then <<out>>
    disk,       \* combined_<source>.json: <<>> while it does not exist, then
                \* <<its JSON document>>
    c_log,      \* the messages combine handed to its logger, without the counts
    q_in,       \* the Questions as they were handed to combine
    a_md,       \* the text handed to _parse_answer_map
    a_result,   \* the mapping it returned
    a_pc,       \* "start" before the call, "done" after it
    m_result,   \* the mapping _parse_mod_map returned on the same text
    m_pc,       \* "start" before that call, "done" after it
    expected,   \* parse_questions' `expected`
    lines,      \* its `lines`: the sorted lines of the page, cut to those after
                \* the carry-over once that is done
    idx,        \* its `idx`: the lines of the page the carry-over has taken
    li,         \* the place in `lines` of the line the main loop takes next
    current,    \* its `current`: <<>> for None, else <<[data, range]>>
    q_ranges,   \* its `q_ranges`
    last_opt,   \* its `last_opt`
    p_pc,       \* where it is: "page" (between pages), "carry", "main", "done",
                \* "raised"
    page_no,    \* the number of pages read so far
    doc,        \* the lines handled so far, in the order handled, each with its
                \* page, its place on the page and the loop that handled it
    v_in,       \* the value handed to validate_output_structure
    v_result,   \* <<>> before it returns, then <<what it returned>>
    v_pc,       \* "start" before the call, "done" after it
    i_qs,       \* the Questions at the end of a page, before its images go in
    i_images,   \* the images of the page handed to _extract_images
    i_ranges,   \* its q_ranges
    i_result,   \* the Questions once the page's images are in
    i_pc,       \* "start" before the call, "done" after it
    sets,       \* App.sets: the keys of the recognized FileSets
    stop_flag,  \* App.stop_flag
    worker,     \* App.worker: the thread started last, 0 for None
    files,      \* App.files: the key of the FileSet whose files it holds
    app_questions, \* App.questions: <<>> at first, then <<[key, form]>> for the
                \* parsed or the combined Questions of a FileSet
    out_dir,    \* the files of OUT_DIR the pipelines wrote, by name
    gui_log,    \* the messages of lines 146, 176 and 178, with the thread that
                \* logged each
    t_pc,       \* for each thread, where it is: "none" (not started), "reset",
                \* "loop", "set", "segment", "check1", "extract", "check2",
                \* "combine", "after" or "finished"
    t_kind,     \* which worker() it runs: "selected" or "all" ("none" before)
    t_key,      \* the `key` it is processing
    t_keys,     \* the keys its for loop has yet to take
    stops       \* history: the threads that were running at a call of force_stop

\* The state of combine.
cvars == <<questions, ans_map, mod_map, mapping, c_pc, qi, c_err, c_out, disk, c_log, q_in>>

\* The state of the extractor.
avars == <<a_md, a_result, a_pc, m_result, m_pc>>

\* The state of parse_questions, but for `questions`.
pvars == <<expected, lines, idx, li, current, q_ranges, last_opt, p_pc, page_no, doc>>

\* The state of a call of validate_output_structure, and of _extract_images.
vvars == <<v_in, v_result, v_pc>>
ivars == <<i_qs, i_images, i_ranges, i_result, i_pc>>

\* The state of the App and of its worker threads.
gvars == <<sets, stop_flag, worker, files, app_questions, out_dir, gui_log,
           t_pc, t_kind, t_key, t_keys, stops>>

vars == <<cvars, avars, pvars, vvars, ivars, gvars>>

\* What a step of combine, of the extractor and of parse_questions leaves alone.
NotCombine == <<avars, pvars, vvars, ivars, gvars>>
NotAnswers == <<cvars, pvars, vvars, ivars, gvars>>
NotParse == <<ans_map, mod_map, mapping, c_pc, qi, c_err, c_out, disk, c_log, q_in, avars,
              vvars, ivars, gvars>>
NotValidate == <<cvars, avars, pvars, ivars, gvars>>
NotImages == <<cvars, avars, pvars, vvars, gvars>>
NotGui == <<cvars, avars, pvars, vvars, ivars>>

\* No call of combine is in progress.
CombineIdle ==
    /\ questions = <<>>
    /\ q_in = <<>>
    /\ ans_map = EmptyDict
    /\ mod_map = EmptyDict
    /\ mapping = EmptyDict
    /\ c_pc = "idle"
    /\ qi = 1
    /\ c_err = NoError
    /\ c_out = <<>>
    /\ disk = <<>>
    /\ c_log = <<>>

\* No call of parse_questions is in progress.
ParseIdle ==
    /\ expected = 1
    /\ lines = <<>>
    /\ idx = 0
    /\ li = 1
    /\ current = <<>>
    /\ q_ranges = <<>>
    /\ last_opt = NoneVal
    /\ p_pc = "idle"
    /\ page_no = 0
    /\ doc = <<>>

\* No call of the extractor is in progress.
AnswersIdle ==
    /\ a_md = <<>>
    /\ a_result = EmptyDict
    /\ a_pc = "idle"
    /\ m_result = EmptyDict
    /\ m_pc = "idle"

\* No call of validate_output_structure is in progress.
ValidateIdle ==
    /\ v_in = <<>>
    /\ v_result = <<>>
    /\ v_pc = "idle"

\* No call of _extract_images is in progress.
ImagesIdle ==
    /\ i_qs = <<>>
    /\ i_images = <<>>
    /\ i_ranges = <<>>
    /\ i_result = <<>>
    /\ i_pc = "idle"

\* The threads a run may start.
Workers == 1 .. MaxWorkers

\* No folder is selected and no worker thread was started.
GuiIdle ==
    /\ sets = {}
    /\ stop_flag = FALSE
    /\ worker = 0
    /\ files = 0
    /\ app_questions = <<>>
    /\ out_dir = {}
    /\ gui_log = <<>>
    /\ t_pc = [w \in Workers |-> "none"]
    /\ t_kind = [w \in Workers |-> "none"]
    /\ t_key = [w \in Workers |-> 0]
    /\ t_keys = [w \in Workers |-> <<>>]
    /\ stops = {}

\* The subject and source key a FileSet is combined under.
Subject == "subject"
Source == "source"

\* ----------------------------------------------------------------- combine

\* The messages of lines 348-353.
ValidityLog(ans_ok, mod_ok) ==
    << IF ans_ok THEN "Answer mapping valid" ELSE "Answer mapping invalid",
       IF mod_ok THEN "Modification mapping valid" ELSE "Modification mapping invalid" >>

\* SelectMapping with the two single-mapping branches in the other order.
SelectMappingModFirst ==
    LET q_count == Len(questions)
        ans_ok == IsValidMap(ans_map, q_count)
        mod_ok == IsValidMap(mod_map, q_count)
        merged == DictUpdate(ans_map, mod_map)
        log == ValidityLog(ans_ok, mod_ok)
    IN  IF mod_ok
        THEN [ok |-> TRUE, mapping |-> mod_map, log |-> Append(log, "Using modification mapping")]
        ELSE IF ans_ok
        THEN [ok |-> TRUE, mapping |-> ans_map, log |-> Append(log, "Using answer mapping")]
        ELSE IF DOMAIN ans_map # {} \/ DOMAIN mod_map # {} THEN
            IF ~IsValidMap(merged, q_count)
            THEN [ok |-> FALSE, log |-> log,
                  err |-> "Answer and modification mapping incomplete or invalid"]
            ELSE [ok |-> TRUE, mapping |-> merged,
                  log |-> Append(log, "Merged answer and modification mapping")]
        ELSE [ok |-> FALSE, log |-> log,
              err |-> "No analyzable tables in answer or modification PDFs"]

\* SelectMapping without the test that one of the mappings is non-empty.
SelectMappingAlwaysMerge ==
    LET q_count == Len(questions)
        ans_ok == IsValidMap(ans_map, q_count)
        mod_ok == IsValidMap(mod_map, q_count)
        merged == DictUpdate(ans_map, mod_map)
        log == ValidityLog(ans_ok, mod_ok)
    IN  IF ans_ok
        THEN [ok |-> TRUE, mapping |-> ans_map, log |-> Append(log, "Using answer mapping")]
        ELSE IF mod_ok
        THEN [ok |-> TRUE, mapping |-> mod_map, log |-> Append(log, "Using modification mapping")]
        ELSE IF ~IsValidMap(merged, q_count)
            THEN [ok |-> FALSE, log |-> log,
                  err |-> "Answer and modification mapping incomplete or invalid"]
            ELSE [ok |-> TRUE, mapping |-> merged,
                  log |-> Append(log, "Merged answer and modification mapping")]

\* Lines 346-371 of combine: the validity of both mappings, then the mapping
\* selected (with the messages logged) or the error raised.
SelectMapping ==
    LET q_count == Len(questions)
        ans_ok == IsValidMap(ans_map, q_count)
        mod_ok == IsValidMap(mod_map, q_count)
        merged == DictUpdate(ans_map, mod_map)
        log == ValidityLog(ans_ok, mod_ok)
    IN  IF ans_ok
        THEN [ok |-> TRUE, mapping |-> ans_map, log |-> Append(log, "Using answer mapping")]
        ELSE IF mod_ok
        THEN [ok |-> TRUE, mapping |-> mod_map, log |-> Append(log, "Using modification mapping")]
        ELSE IF DOMAIN ans_map # {} \/ DOMAIN mod_map # {} THEN
            IF ~IsValidMap(merged, q_count)
            THEN [ok |-> FALSE, log |-> log,
                  err |-> "Answer and modification mapping incomplete or invalid"]
            ELSE [ok |-> TRUE, mapping |-> merged,
                  log |-> Append(log, "Merged answer and modification mapping")]
        ELSE [ok |-> FALSE, log |-> log,
              err |-> "No analyzable tables in answer or modification PDFs"]

\* combine, lines 346-371: validate both mappings and select one, or raise.
Select ==
    /\ c_pc = "select"
    /\ LET r == SelectMapping IN
       /\ c_log' = r.log
       /\ IF r.ok
          THEN /\ mapping' = r.mapping
               /\ c_pc' = "assign"
               /\ UNCHANGED c_err
          ELSE /\ c_err' = r.err
               /\ c_pc' = "raised"
               /\ UNCHANGED mapping
    /\ qi' = 1
    /\ UNCHANGED <<questions, ans_map, mod_map, c_out, disk, q_in>>
    /\ UNCHANGED NotCombine

\* AssignAnswer that keeps an answer the Question already carries.
AssignAnswerKeepOld(q, letter) ==
    LET q1 == IF "answer" \in DOMAIN q.v THEN q.v ELSE DictSet(q.v, "answer", PyStr(letter))
        q2 == IF "images" \in DOMAIN q1 /\ q1["images"].v # <<>>
              THEN DictSet(q1, "images",
                       PyList([i \in DOMAIN q1["images"].v |->
                                   NormalizeImage(q1["images"].v[i])]))
              ELSE q1
    IN  PyDict(q2)

\* The body of the loop over the questions (lines 374-380) for a Question whose
\* id is in the mapping: the Question with its answer set and images rewritten.
AssignAnswer(q, letter) ==
    LET q1 == DictSet(q.v, "answer", PyStr(letter))
        q2 == IF "images" \in DOMAIN q1 /\ q1["images"].v # <<>>
              THEN DictSet(q1, "images",
                       PyList([i \in DOMAIN q1["images"].v |->
                                   NormalizeImage(q1["images"].v[i])]))
              ELSE q1
    IN  PyDict(q2)

\* combine, lines 373-380: one iteration of the loop over the questions.
Assign ==
    /\ c_pc = "assign"
    /\ qi <= Len(questions)
    /\ LET q == questions[qi]
           qid == PyStrOfInt(q.v["id"].v)
       IN  IF qid \notin DOMAIN mapping
           THEN /\ c_err' = "Missing answer for question"
                /\ c_pc' = "raised"
                /\ UNCHANGED <<questions, qi>>
           ELSE /\ questions' = [questions EXCEPT ![qi] = AssignAnswer(q, mapping[qid])]
                /\ qi' = qi + 1
                /\ UNCHANGED <<c_err, c_pc>>
    /\ UNCHANGED <<ans_map, mod_map, mapping, c_out, disk, c_log, q_in>>
    /\ UNCHANGED NotCombine

\* The nested output of line 382.
BuildOut(qs) ==
    PyDict([k \in {"subjects"} |->
        PyDict([s \in {Subject} |-> PyDict([c \in {Source} |-> PyList(qs)])])])

\* combine, lines 382-384: build the output and validate it in memory.
Validate ==
    /\ c_pc = "assign"
    /\ qi > Len(questions)
    /\ c_out' = <<BuildOut(questions)>>
    /\ IF ~ValidateOutputStructure(BuildOut(questions))
       THEN /\ c_err' = "Combined output failed validation"
            /\ c_pc' = "raised"
       ELSE /\ c_pc' = "write"
            /\ UNCHANGED c_err
    /\ UNCHANGED <<questions, ans_map, mod_map, mapping, qi, disk, c_log, q_in>>
    /\ UNCHANGED NotCombine

\* combine, lines 385-387: write the output to combined_<source>.json.
Write ==
    /\ c_pc = "write"
    /\ disk' = <<JsonDump(c_out[1])>>
    /\ c_pc' = "reload"
    /\ UNCHANGED <<questions, ans_map, mod_map, mapping, qi, c_err, c_out, c_log, q_in>>
    /\ UNCHANGED NotCombine

\* combine, lines 388-394: read the file back, validate it, and return.
Reload ==
    /\ c_pc = "reload"
    /\ LET loaded == JsonLoad(disk[1]) IN
       IF ~ValidateOutputStructure(loaded)
       THEN /\ c_err' = "Written output failed validation"
            /\ c_pc' = "raised"
            /\ UNCHANGED c_log
       ELSE /\ c_pc' = "returned"
            /\ c_log' = Append(c_log, "Output structure validation succeeded")
            /\ UNCHANGED c_err
    /\ UNCHANGED <<questions, ans_map, mod_map, mapping, qi, c_out, disk, q_in>>
    /\ UNCHANGED NotCombine

\* Key strings of a mapping: the decimal strings of 1 .. MaxQ + 1.
MapKeys == {PyStrOfInt(k) : k \in 1 .. MaxQ + 1}

\* Value strings of the answer mapping: letters and one string that is none.
AnsValues == {<<"A">>, <<"B">>, <<"x">>}

\* Value strings of the modification mapping, told apart from the answers'.
ModValues == {<<"C">>, <<"x">>}

\* The mappings the extractors may hand over: any digit keys, any values.
Maps(values) == UNION {[K -> values] : K \in SUBSET MapKeys}

\* The forms a Question handed to combine takes: fresh from parse_questions
\* without or with an image, with an image that lacks the data-URI prefix, and
\* as left behind by an earlier combine.
QuestionForms == {"fresh", "image", "raw image", "combined"}

QuestionOfForm(id, form) ==
    CASE form = "fresh" -> NewQuestion(id, <<"q">>, <<>>)
      [] form = "image" -> NewQuestion(id, <<"q">>, <<PyStr(DataUriPrefix \o <<"i">>)>>)
      [] form = "raw image" -> NewQuestion(id, <<"q">>, <<PyStr(<<"i">>)>>)
      [] form = "combined" ->
            PyDict(DictSet(NewQuestion(id, <<"q">>, <<>>).v, "answer", PyStr(<<"D">>)))

\* The question lists parse_questions returns: ids 1 .. N in order.
QuestionLists ==
    {[i \in 1 .. n |-> QuestionOfForm(i, form)] : n \in 0 .. MaxQ, form \in QuestionForms}

CombineInit ==
    /\ questions \in QuestionLists
    /\ q_in = questions
    /\ ans_map \in Maps(AnsValues)
    /\ mod_map \in Maps(ModValues)
    /\ mapping = EmptyDict
    /\ c_pc = "select"
    /\ qi = 1
    /\ c_err = NoError
    /\ c_out = <<>>
    /\ disk = <<>>
    /\ c_log = <<>>
    /\ AnswersIdle
    /\ ParseIdle
    /\ ValidateIdle
    /\ ImagesIdle
    /\ GuiIdle

CombineNext == Select \/ Assign \/ Validate \/ Write \/ Reload

\* One call of combine on every question list and pair of mappings.
SpecCombine == CombineInit /\ [][CombineNext]_vars

\* --------------------------------------------------------- parse_questions

\* The bottom edge of every page, page.rect.y1: below every line.
PageBottom == MaxLines + 1

\* The texts of a line: the bare integers 1 and 2, "1. q" and "2.r" (the
\* second with a full-width stop), an option under each of the three marker
\* forms, ordinary text, white space alone, and a superscript two alone.
LineTexts ==
    { <<"1">>,
      <<"2">>,
      <<"1", ".", " ", "q">>,
      <<"2", "U+FF0E", "r">>,
      <<"A", ".", "x">>,
      <<"U+FF21", "y">>,
      <<"U+E18C", " ", "z">>,
      <<"t">>,
      <<" ">>,
      <<SuperscriptTwo>> }

\* The images of page n: none, or one whose rectangle has its centre at y = 2
\* and whose bytes are the page's own.
PageImages(n) == { <<>>, <<[rect |-> <<1, 3>>, data |-> <<"i", PyStrOfInt(n)[1]>>]>> }

\* Lines 99-110: the next page's lines, as the provider hands them over (top
\* to bottom or bottom to top), sorted.
NextPage ==
    /\ p_pc = "page"
    /\ page_no < MaxPages
    /\ \E n \in 0 .. (MaxLines - Len(doc)) :
       \E texts \in [1 .. n -> LineTexts] :
       \E down \in BOOLEAN :
          lines' = SortLines([i \in 1 .. n |->
                       [x0 |-> 0, y0 |-> IF down THEN i ELSE n + 1 - i, text |-> texts[i]]])
    /\ idx' = 0
    /\ page_no' = page_no + 1
    /\ p_pc' = "carry"
    /\ UNCHANGED <<questions, expected, li, current, q_ranges, last_opt, doc>>
    /\ UNCHANGED NotParse

\* Line 115: the carry-over loop meets a line that isdigit() accepts and int()
\* does not read.
CarryRaises ==
    /\ questions # <<>>
    /\ idx < Len(lines)
    /\ IsDigit(Strip(lines[idx + 1].text))
    /\ ~IntParses(Strip(lines[idx + 1].text))

\* Lines 139-140: the same in the main loop.
MainRaises ==
    /\ li <= Len(lines)
    /\ IsDigit(Strip(lines[li].text))
    /\ ~IntParses(Strip(lines[li].text))

\* The ValueError of int() leaves parse_questions from the carry-over loop.
CarryRaise ==
    /\ p_pc = "carry"
    /\ CarryRaises
    /\ doc' = Append(doc, [page |-> page_no, y0 |-> lines[idx + 1].y0,
                           text |-> lines[idx + 1].text, loop |-> "carry"])
    /\ p_pc' = "raised"
    /\ UNCHANGED <<questions, expected, lines, idx, li, current, q_ranges, last_opt, page_no>>
    /\ UNCHANGED NotParse

\* The ValueError of int() leaves parse_questions from the main loop.
MainRaise ==
    /\ p_pc = "main"
    /\ MainRaises
    /\ doc' = Append(doc, [page |-> page_no, y0 |-> lines[li].y0,
                           text |-> lines[li].text, loop |-> "main"])
    /\ p_pc' = "raised"
    /\ UNCHANGED <<questions, expected, lines, idx, li, current, q_ranges, last_opt, page_no>>
    /\ UNCHANGED NotParse

\* The carry-over loop stops: there is no previous Question, no line is left,
\* or the next line is a marker for `expected`.
CarryStops ==
    IF questions = <<>> \/ idx >= Len(lines) THEN TRUE
    ELSE IsBareExpected(Strip(lines[idx + 1].text), expected)
         \/ IsStartExpected(Strip(lines[idx + 1].text), expected)

\* Lines 113-131: one turn of the carry-over loop, which attaches a line at
\* the top of the page to the last Question.
CarryLine ==
    /\ p_pc = "carry"
    /\ ~CarryRaises
    /\ ~CarryStops
    /\ LET stripped == Strip(lines[idx + 1].text)
           prev == questions[Len(questions)]
       IN  /\ questions' = [questions EXCEPT ![Len(questions)] = CarryInto(prev, stripped)]
           /\ doc' = Append(doc, [page |-> page_no, y0 |-> lines[idx + 1].y0,
                                  text |-> lines[idx + 1].text, loop |-> "carry"])
    /\ idx' = idx + 1
    /\ UNCHANGED <<expected, lines, li, current, q_ranges, last_opt, p_pc, page_no>>
    /\ UNCHANGED NotParse

\* Lines 132-136: the carry-over is done; the main loop starts on the rest.
CarryEnd ==
    /\ p_pc = "carry"
    /\ ~CarryRaises
    /\ CarryStops
    /\ lines' = RestOfLines(lines, idx)
    /\ li' = 1
    /\ current' = <<>>
    /\ q_ranges' = <<>>
    /\ last_opt' = NoneVal
    /\ p_pc' = "main"
    /\ UNCHANGED <<questions, expected, idx, page_no, doc>>
    /\ UNCHANGED NotParse

\* Lines 142-151 and 164-173: a marker for `expected` closes the open Question
\* at this line's y0, flushes it, and opens the next one.
OpenQuestion(y0, id, text) ==
    /\ IF current # <<>>
       THEN /\ questions' = Append(questions, current[1].data)
            /\ q_ranges' = Append(q_ranges, <<current[1].range[1], y0>>)
       ELSE UNCHANGED <<questions, q_ranges>>
    /\ current' = <<[data |-> NewQuestion(id, text, <<>>), range |-> <<y0, PageBottom>>]>>
    /\ expected' = expected + 1
    /\ last_opt' = NoneVal

\* Lines 137-191: one turn of the main loop.
MainLine ==
    /\ p_pc = "main"
    /\ li <= Len(lines)
    /\ ~MainRaises
    /\ LET y0 == lines[li].y0
           stripped == Strip(lines[li].text)
       IN  /\ doc' = Append(doc, [page |-> page_no, y0 |-> y0,
                                  text |-> lines[li].text, loop |-> "main"])
           /\ IF IsDigit(stripped)
              THEN IF PyIntOfStr(stripped) = expected
                   THEN OpenQuestion(y0, PyIntOfStr(stripped), <<>>)
                   ELSE IF current # <<>>
                   THEN /\ current' = <<[current[1] EXCEPT
                                !.data = TextInto(current[1].data, last_opt, stripped)]>>
                        /\ UNCHANGED <<questions, q_ranges, expected, last_opt>>
                   ELSE UNCHANGED <<questions, q_ranges, expected, last_opt, current>>
              ELSE IF IsStartExpected(stripped, expected)
                   THEN OpenQuestion(y0, expected, Strip(QuestionStartGroup2(stripped)))
                   ELSE IF current # <<>>
                   THEN IF IsGlyphOption(stripped)
                        THEN /\ current' = <<[current[1] EXCEPT !.data =
                                     WithOption(current[1].data, GlyphOptionKey(stripped),
                                                GlyphOptionText(stripped))]>>
                             /\ last_opt' = GlyphOptionKey(stripped)
                             /\ UNCHANGED <<questions, q_ranges, expected>>
                        ELSE IF OptionPatternMatches(stripped)
                        THEN /\ current' = <<[current[1] EXCEPT !.data =
                                     WithOption(current[1].data, AsciiOptionKey(stripped),
                                                AsciiOptionText(stripped))]>>
                             /\ last_opt' = AsciiOptionKey(stripped)
                             /\ UNCHANGED <<questions, q_ranges, expected>>
                        ELSE /\ current' = <<[current[1] EXCEPT
                                     !.data = TextInto(current[1].data, last_opt, stripped)]>>
                             /\ UNCHANGED <<questions, q_ranges, expected, last_opt>>
                   ELSE UNCHANGED <<questions, q_ranges, expected, last_opt, current>>
    /\ li' = li + 1
    /\ UNCHANGED <<lines, idx, p_pc, page_no>>
    /\ UNCHANGED NotParse

\* Lines 192-197: at the end of the page the open Question is flushed with its
\* range, and the page's images go to the Questions flushed on it.
EndPage ==
    /\ p_pc = "main"
    /\ li > Len(lines)
    /\ \E images \in PageImages(page_no) :
          LET flushed == IF current # <<>> THEN Append(questions, current[1].data)
                         ELSE questions
              ranges == IF current # <<>> THEN Append(q_ranges, current[1].range)
                        ELSE q_ranges
          IN  /\ questions' = AttachImages(flushed, ExtractImages(images, ranges))
              /\ q_ranges' = ranges
    /\ p_pc' = "page"
    /\ UNCHANGED <<expected, lines, idx, li, current, last_opt, page_no, doc>>
    /\ UNCHANGED NotParse

\* Lines 198-202: after the last page the Questions are returned.
Finish ==
    /\ p_pc = "page"
    /\ p_pc' = "done"
    /\ UNCHANGED <<questions, expected, lines, idx, li, current, q_ranges, last_opt,
                   page_no, doc>>
    /\ UNCHANGED NotParse

ParseInit ==
    /\ questions = <<>>
    /\ expected = 1
    /\ lines = <<>>
    /\ idx = 0
    /\ li = 1
    /\ current = <<>>
    /\ q_ranges = <<>>
    /\ last_opt = NoneVal
    /\ p_pc = "page"
    /\ page_no = 0
    /\ doc = <<>>
    /\ q_in = <<>>
    /\ ans_map = EmptyDict
    /\ mod_map = EmptyDict
    /\ mapping = EmptyDict
    /\ c_pc = "idle"
    /\ qi = 1
    /\ c_err = NoError
    /\ c_out = <<>>
    /\ disk = <<>>
    /\ c_log = <<>>
    /\ AnswersIdle
    /\ ValidateIdle
    /\ ImagesIdle
    /\ GuiIdle

ParseNext ==
    \/ NextPage
    \/ CarryLine
    \/ CarryRaise
    \/ CarryEnd
    \/ MainLine
    \/ MainRaise
    \/ EndPage
    \/ Finish

\* One call of parse_questions on every document within the bounds.
SpecParse == ParseInit /\ [][ParseNext]_vars

\* ----------------------------------------------------- the extractor alone

\* Lines of answer text: table rows "| 1 | A |" and "| 2 | B |", a row with a
\* full-width letter, a header row, a separator row, and lines outside a table.
RowText(id, letter) ==
    <<"|", " ">> \o PyStrOfInt(id) \o <<" ", "|", " ", letter, " ", "|">>

AnswerLines ==
    { RowText(1, "A"),
      RowText(2, "B"),
      <<"|", "3", "|", "U+FF23", "|">>,
      <<"|", " ", "n", "o", " ", "|", " ", "a", "n", "s", " ", "|">>,
      <<"A", " ", "B", " ", "C">>,
      <<"A", " ", "U+FF22", " ", "C">>,
      <<"U+E18D", " ", "D">>,
      <<"x">> }

RECURSIVE JoinLines(_)
\* "\n".join(lines)
JoinLines(ls) ==
    IF ls = <<>> THEN <<>>
    ELSE IF Len(ls) = 1 THEN ls[1]
    ELSE ls[1] \o <<"\n">> \o JoinLines(Tail(ls))

\* The answer texts: up to MaxMdLines lines, joined.
AnswerTexts ==
    {JoinLines(ls) : ls \in UNION {[1 .. n -> AnswerLines] : n \in 0 .. MaxMdLines}}

AnswersInit ==
    /\ a_md \in AnswerTexts
    /\ a_result = EmptyDict
    /\ a_pc = "start"
    /\ m_result = EmptyDict
    /\ m_pc = "idle"
    /\ CombineIdle
    /\ ParseIdle
    /\ ValidateIdle
    /\ ImagesIdle
    /\ GuiIdle

\* One call of _parse_answer_map (lines 248-264).
ParseAnswers ==
    /\ a_pc = "start"
    /\ a_result' = ParseAnswerMap(a_md)
    /\ a_pc' = "done"
    /\ UNCHANGED <<a_md, m_result, m_pc>>
    /\ UNCHANGED NotAnswers

AnswersNext == ParseAnswers

\* One call of _parse_answer_map on every answer text.
SpecAnswers == AnswersInit /\ [][AnswersNext]_vars

\* ------------------------------------------------ texts of several tables

\* The rows of a table: a header, id 1 with A, id 1 with C, and id 2 with B
\* and a further column that holds D.
TableRows ==
    { <<"|", "n", "o", "|", "A", "n", "s", "|">>,
      <<"|", "1", "|", "A", "|">>,
      <<"|", "1", "|", "C", "|">>,
      <<"|", "2", "|", "B", "|", "D", "|">> }

\* The table-runs: one up to MaxRows rows.
TableRuns == UNION {[1 .. n -> TableRows] : n \in 1 .. MaxRows}

\* The line between two runs: plain text, or text the modification fallback
\* matches.
BetweenRuns == { <<"x">>, <<"2", ".", " ", "U+FF21">> }

RECURSIVE RunsText(_, _)
\* The text of these runs, with the line `between` between two of them.
RunsText(runs, between) ==
    IF Len(runs) = 1 THEN JoinLines(runs[1])
    ELSE JoinLines(runs[1]) \o <<"\n">> \o between \o <<"\n">> \o RunsText(Tail(runs), between)

\* The texts: one up to MaxRuns runs.
RunTexts ==
    {RunsText(runs, between) :
        runs \in UNION {[1 .. n -> TableRuns] : n \in 1 .. MaxRuns}, between \in BetweenRuns}

RunsInit ==
    /\ a_md \in RunTexts
    /\ a_result = EmptyDict
    /\ a_pc = "start"
    /\ m_result = EmptyDict
    /\ m_pc = "start"
    /\ CombineIdle
    /\ ParseIdle
    /\ ValidateIdle
    /\ ImagesIdle
    /\ GuiIdle

\* One call of _parse_mod_map (lines 267-296).
ParseMods ==
    /\ m_pc = "start"
    /\ m_result' = ParseModMap(a_md)
    /\ m_pc' = "done"
    /\ UNCHANGED <<a_md, a_result, a_pc>>
    /\ UNCHANGED NotAnswers

RunsNext == ParseAnswers \/ ParseMods

\* One call of _parse_answer_map and one of _parse_mod_map on every text of
\* table-runs.
SpecRuns == RunsInit /\ [][RunsNext]_vars

\* ----------------------------------------------------- the validator alone

\* A Question as combine leaves it, with the answer "A".
AnsweredQuestion == PyDict(DictSet(NewQuestion(1, <<"q">>, <<>>).v, "answer", PyStr(<<"A">>)))

\* The Questions handed to the validator: one with a letter for answer, one
\* without the key `answer` (as parse_questions returns it), ones whose
\* answer is another string, a full-width letter, or an int, and an answered
\* one whose `question` is an int.
VQuestions ==
    { AnsweredQuestion,
      NewQuestion(1, <<"q">>, <<>>),
      PyDict(DictSet(AnsweredQuestion.v, "answer", PyStr(<<"x">>))),
      PyDict(DictSet(AnsweredQuestion.v, "answer", PyStr(<<"U+FF21">>))),
      PyDict(DictSet(AnsweredQuestion.v, "answer", PyInt(1))),
      PyDict(DictSet(AnsweredQuestion.v, "question", PyInt(5))) }

\* The question lists: up to MaxVQ of these Questions.
VLists == {PyList(qs) : qs \in UNION {[1 .. n -> VQuestions] : n \in 0 .. MaxVQ}}

\* The sources of a subject: the source "a", or the sources "a" and "b".
VSources == {PyDict(f) : f \in [{"a"} -> VLists] \cup [{"a", "b"} -> VLists]}

\* The outputs: the subject "m", or the subjects "m" and "n", the second with
\* the one source "a".
VOutputs ==
    {PyDict([k \in {"subjects"} |-> PyDict(f)]) : f \in [{"m"} -> VSources]}
    \cup {PyDict([k \in {"subjects"} |->
                PyDict([subj \in {"m", "n"} |->
                    IF subj = "m" THEN sm ELSE PyDict([src \in {"a"} |-> ln])])]) :
            sm \in VSources, ln \in VLists}

ValidateInit ==
    /\ v_in \in VOutputs
    /\ v_result = <<>>
    /\ v_pc = "start"
    /\ CombineIdle
    /\ AnswersIdle
    /\ ParseIdle
    /\ ImagesIdle
    /\ GuiIdle

\* One call of validate_output_structure (lines 306-332).
ValidateCall ==
    /\ v_pc = "start"
    /\ v_result' = <<ValidateOutputStructure(v_in)>>
    /\ v_pc' = "done"
    /\ UNCHANGED v_in
    /\ UNCHANGED NotValidate

ValidateNext == ValidateCall

\* One call of validate_output_structure on every output within the bounds.
SpecValidate == ValidateInit /\ [][ValidateNext]_vars

\* ------------------------------------------------- _extract_images alone

\* The y0 of the markers of the Questions flushed on a page, top to bottom.
MarkerYs ==
    {ys \in UNION {[1 .. n -> 1 .. MaxLines] : n \in 0 .. MaxRanges} :
        \A i \in 1 .. (Len(ys) - 1) : ys[i] <= ys[i + 1]}

\* The ranges the main loop and the end of the page leave for these markers
\* (lines 143-148, 165-170, 192-194): each from its marker to the next one,
\* the last to the bottom of the page.
RangesOf(ys) ==
    [k \in DOMAIN ys |-> <<ys[k], IF k < Len(ys) THEN ys[k + 1] ELSE PageBottom>>]

\* The rectangles of an image: the top edge on the page or above it, the
\* height 0 or 1, so that the centre is on a line's y0 or half-way between two.
ImageRects == {<<y, y + h>> : y \in 0 .. PageBottom, h \in 0 .. 1}

\* The bytes of the k-th image the page lists, as base64.
ImageData(k) == <<"i", PyStrOfInt(k)[1]>>

\* The images of a page, in the order page.get_images lists them.
ImageLists ==
    {[k \in DOMAIN rects |-> [rect |-> rects[k], data |-> ImageData(k)]] :
        rects \in UNION {[1 .. n -> ImageRects] : n \in 0 .. MaxImages}}

\* The Questions at the end of the page: with or without one from an earlier
\* page, which has an image already, and then one per range.
QuestionsBefore(earlier, n) ==
    [i \in 1 .. (earlier + n) |->
        IF i <= earlier
        THEN NewQuestion(i, <<"q">>, <<PyStr(DataUriPrefix \o ImageData(0))>>)
        ELSE NewQuestion(i, <<"q">>, <<>>)]

ImagesInit ==
    /\ \E ys \in MarkerYs, earlier \in 0 .. 1 :
          /\ i_ranges = RangesOf(ys)
          /\ i_qs = QuestionsBefore(earlier, Len(ys))
    /\ i_images \in ImageLists
    /\ i_result = <<>>
    /\ i_pc = "start"
    /\ CombineIdle
    /\ AnswersIdle
    /\ ParseIdle
    /\ ValidateIdle
    /\ GuiIdle

\* Lines 195-197 with _extract_images (lines 73-91): the page's images are
\* grouped per range and the groups go to the Questions flushed on the page.
AttachCall ==
    /\ i_pc = "start"
    /\ i_result' = AttachImages(i_qs, ExtractImages(i_images, i_ranges))
    /\ i_pc' = "done"
    /\ UNCHANGED <<i_qs, i_images, i_ranges>>
    /\ UNCHANGED NotImages

ImagesNext == AttachCall

\* The images of one page, for every page within the bounds.
SpecImages == ImagesInit /\ [][ImagesNext]_vars

\* ------------------------------------------------------- the worker threads
\* gui.py: the buttons Process Selected, Process All and Stop.

\* The keys of a for loop over sorted(self.sets.keys()).
SortedKeys(S) == [i \in 1 .. Cardinality(S) |-> i]

\* The thread a call of threading.Thread creates: the first not yet started.
NewThread == CHOOSE w \in Workers : t_pc[w] = "none" /\ \A u \in 1 .. (w - 1) : t_pc[u] # "none"

\* A thread that was started and has not run to its end.
Running(w) == t_pc[w] \notin {"none", "finished"}

\* process_selected (lines 149-162): with a folder selected, a thread is
\* started to process the FileSet chosen in the menu.
ProcessSelected ==
    /\ sets # {}
    /\ \E w \in Workers : t_pc[w] = "none"
    /\ \E key \in sets :
          /\ t_pc' = [t_pc EXCEPT ![NewThread] = "reset"]
          /\ t_kind' = [t_kind EXCEPT ![NewThread] = "selected"]
          /\ t_key' = [t_key EXCEPT ![NewThread] = key]
    /\ worker' = NewThread
    /\ UNCHANGED <<sets, stop_flag, files, app_questions, out_dir, gui_log, t_keys, stops>>
    /\ UNCHANGED NotGui

\* process_all (lines 164-180): with a folder selected, a thread is started to
\* process every FileSet in the order of the keys.
ProcessAll ==
    /\ sets # {}
    /\ \E w \in Workers : t_pc[w] = "none"
    /\ t_pc' = [t_pc EXCEPT ![NewThread] = "reset"]
    /\ t_kind' = [t_kind EXCEPT ![NewThread] = "all"]
    /\ worker' = NewThread
    /\ UNCHANGED <<sets, stop_flag, files, app_questions, out_dir, gui_log, t_key, t_keys, stops>>
    /\ UNCHANGED NotGui

\* force_stop (lines 182-183).
ForceStop ==
    /\ stop_flag' = TRUE
    /\ stops' = stops \cup {w \in Workers : Running(w)}
    /\ UNCHANGED <<sets, worker, files, app_questions, out_dir, gui_log, t_pc, t_kind, t_key, t_keys>>
    /\ UNCHANGED NotGui

\* The first statement of worker() (lines 159, 169); the for loop of line 170
\* then takes the sorted keys.
Reset(w) ==
    /\ t_pc[w] = "reset"
    /\ stop_flag' = FALSE
    /\ t_pc' = [t_pc EXCEPT ![w] = IF t_kind[w] = "all" THEN "loop" ELSE "set"]
    /\ t_keys' = [t_keys EXCEPT ![w] = IF t_kind[w] = "all" THEN SortedKeys(sets) ELSE <<>>]
    /\ UNCHANGED <<sets, worker, files, app_questions, out_dir, gui_log, t_kind, t_key, stops>>
    /\ UNCHANGED NotGui

\* Lines 170-172: the loop ends when the keys are used up, breaks when the
\* flag is set, and otherwise calls process_set with the next key.
LoopCheck(w) ==
    /\ t_pc[w] = "loop"
    /\ IF t_keys[w] = <<>> \/ stop_flag
       THEN /\ t_pc' = [t_pc EXCEPT ![w] = "after"]
            /\ UNCHANGED <<t_key, t_keys>>
       ELSE /\ t_pc' = [t_pc EXCEPT ![w] = "set"]
            /\ t_key' = [t_key EXCEPT ![w] = Head(t_keys[w])]
            /\ t_keys' = [t_keys EXCEPT ![w] = Tail(t_keys[w])]
    /\ UNCHANGED <<sets, stop_flag, worker, files, app_questions, out_dir, gui_log, t_kind, stops>>
    /\ UNCHANGED NotGui

\* Where a thread goes when process_set returns `result`: worker() of
\* process_selected ends; the loop of process_all goes on after True and
\* breaks after False (lines 173-174).
AfterSet(w, result) ==
    IF t_kind[w] = "selected" THEN "finished"
    ELSE IF result THEN "loop" ELSE "after"

\* Line 117.
BeginSet(w) ==
    /\ t_pc[w] = "set"
    /\ files' = t_key[w]
    /\ t_pc' = [t_pc EXCEPT ![w] = "segment"]
    /\ UNCHANGED <<sets, stop_flag, worker, app_questions, out_dir, gui_log, t_kind, t_key, t_keys, stops>>
    /\ UNCHANGED NotGui

\* Lines 119-124: parse_questions writes questions_<base>.json and returns the
\* Questions, or raises; line 145 catches what it raises.
Segment(w) ==
    /\ t_pc[w] = "segment"
    /\ \/ /\ out_dir' = out_dir \cup {<<"questions", t_key[w]>>}
          /\ app_questions' = <<[key |-> t_key[w], form |-> "parsed"]>>
          /\ t_pc' = [t_pc EXCEPT ![w] = "check1"]
          /\ UNCHANGED gui_log
       \/ /\ gui_log' = Append(gui_log, <<w, "Error processing set">>)
          /\ t_pc' = [t_pc EXCEPT ![w] = AfterSet(w, FALSE)]
          /\ UNCHANGED <<out_dir, app_questions>>
    /\ UNCHANGED <<sets, stop_flag, worker, files, t_kind, t_key, t_keys, stops>>
    /\ UNCHANGED NotGui

\* Lines 125-126, were the flag not looked at.
Check1Ignoring(w) ==
    /\ t_pc[w] = "check1"
    /\ t_pc' = [t_pc EXCEPT ![w] = "extract"]
    /\ UNCHANGED <<sets, stop_flag, worker, files, app_questions, out_dir, gui_log, t_kind, t_key, t_keys, stops>>
    /\ UNCHANGED NotGui

\* Lines 125-126.
Check1(w) ==
    /\ t_pc[w] = "check1"
    /\ t_pc' = [t_pc EXCEPT ![w] = IF stop_flag THEN AfterSet(w, FALSE) ELSE "extract"]
    /\ UNCHANGED <<sets, stop_flag, worker, files, app_questions, out_dir, gui_log, t_kind, t_key, t_keys, stops>>
    /\ UNCHANGED NotGui

\* Lines 127-136: the answer and the modification file are converted, or the
\* conversion raises.
Extract(w) ==
    /\ t_pc[w] = "extract"
    /\ \/ /\ out_dir' = out_dir \cup {<<"md", t_key[w]>>}
          /\ t_pc' = [t_pc EXCEPT ![w] = "check2"]
          /\ UNCHANGED gui_log
       \/ /\ gui_log' = Append(gui_log, <<w, "Error processing set">>)
          /\ t_pc' = [t_pc EXCEPT ![w] = AfterSet(w, FALSE)]
          /\ UNCHANGED out_dir
    /\ UNCHANGED <<sets, stop_flag, worker, files, app_questions, t_kind, t_key, t_keys, stops>>
    /\ UNCHANGED NotGui

\* Lines 137-138.
Check2(w) ==
    /\ t_pc[w] = "check2"
    /\ t_pc' = [t_pc EXCEPT ![w] = IF stop_flag THEN AfterSet(w, FALSE) ELSE "combine"]
    /\ UNCHANGED <<sets, stop_flag, worker, files, app_questions, out_dir, gui_log, t_kind, t_key, t_keys, stops>>
    /\ UNCHANGED NotGui

\* Lines 139-144: combine returns with combined_<key>.json written, or raises
\* before writing it, or raises after (line 391 of pdf_tool.py).
Combine(w) ==
    /\ t_pc[w] = "combine"
    /\ \/ /\ out_dir' = out_dir \cup {<<"combined", t_key[w]>>}
          /\ app_questions' = <<[key |-> t_key[w], form |-> "combined"]>>
          /\ t_pc' = [t_pc EXCEPT ![w] = AfterSet(w, TRUE)]
          /\ UNCHANGED gui_log
       \/ /\ \E written \in BOOLEAN :
                out_dir' = IF written THEN out_dir \cup {<<"combined", t_key[w]>>} ELSE out_dir
          /\ gui_log' = Append(gui_log, <<w, "Error processing set">>)
          /\ t_pc' = [t_pc EXCEPT ![w] = AfterSet(w, FALSE)]
          /\ UNCHANGED app_questions
    /\ UNCHANGED <<sets, stop_flag, worker, files, t_kind, t_key, t_keys, stops>>
    /\ UNCHANGED NotGui

\* Lines 175-178: the last message of process_all's worker().
AfterLoop(w) ==
    /\ t_pc[w] = "after"
    /\ gui_log' = Append(gui_log,
                    <<w, IF stop_flag THEN "Processing stopped" ELSE "Processing finished">>)
    /\ t_pc' = [t_pc EXCEPT ![w] = "finished"]
    /\ UNCHANGED <<sets, stop_flag, worker, files, app_questions, out_dir, t_kind, t_key, t_keys, stops>>
    /\ UNCHANGED NotGui

\* select_folder has recognized 1 to MaxSets FileSets and holds the files of
\* the first (line 68); no thread is started yet.
GuiInit ==
    /\ sets \in {1 .. n : n \in 1 .. MaxSets}
    /\ stop_flag = FALSE
    /\ worker = 0
    /\ files = 1
    /\ app_questions = <<>>
    /\ out_dir = {}
    /\ gui_log = <<>>
    /\ t_pc = [w \in Workers |-> "none"]
    /\ t_kind = [w \in Workers |-> "none"]
    /\ t_key = [w \in Workers |-> 0]
    /\ t_keys = [w \in Workers |-> <<>>]
    /\ stops = {}
    /\ CombineIdle
    /\ AnswersIdle
    /\ ParseIdle
    /\ ValidateIdle
    /\ ImagesIdle

\* A step of one thread.
WorkerStep(w) ==
    \/ Reset(w)
    \/ LoopCheck(w)
    \/ BeginSet(w)
    \/ Segment(w)
    \/ Check1(w)
    \/ Extract(w)
    \/ Check2(w)
    \/ Combine(w)
    \/ AfterLoop(w)

GuiNext ==
    \/ ProcessSelected
    \/ ProcessAll
    \/ ForceStop
    \/ \E w \in Workers : WorkerStep(w)

\* The UI thread and the worker threads, interleaved at the stages of
\* process_set and at the reads and writes of the flag.
SpecGui == GuiInit /\ [][GuiNext]_vars

\* ------------------------------------------------------ claims on combine

\* The validity predicate of the specification for a map: size == N and every
\* value in {A, B, C, D}.
SizeValid(m) ==
    /\ Cardinality(DOMAIN m) = Len(q_in)
    /\ \A k \in DOMAIN m : m[k] \in {<<"A">>, <<"B">>, <<"C">>, <<"D">>}

\* The map has an entry for the string form of every Question's id.
CoversIds(m) == \A i \in DOMAIN q_in : PyStrOfInt(q_in[i].v["id"].v) \in DOMAIN m

\* The merge of the two maps as the specification words it: the modification
\* entry on an id both maps have, each map's own entry elsewhere.
SpecMerge ==
    [k \in (DOMAIN ans_map) \cup (DOMAIN mod_map) |->
        IF k \in DOMAIN mod_map THEN mod_map[k] ELSE ans_map[k]]

\* combine got past the selection of a mapping.
Selected ==
    /\ c_pc # "select"
    /\ c_err \notin {"Answer and modification mapping incomplete or invalid",
                     "No analyzable tables in answer or modification PDFs"}

\* Every answer the loop has written so far is the value of m at the id.
AssignedFrom(m) ==
    \A i \in 1 .. (qi - 1) :
        /\ "answer" \in DOMAIN questions[i].v
        /\ PyStrOfInt(questions[i].v["id"].v) \in DOMAIN m
        /\ questions[i].v["answer"] = PyStr(m[PyStrOfInt(questions[i].v["id"].v)])

\* combine ends by returning: it has not raised, and takes a step until it
\* has returned.
Succeeds == c_pc # "raised" /\ (c_pc # "returned" => ENABLED CombineNext)

\* The Questions of the output combine built.
OutQuestions == c_out[1].v["subjects"].v[Subject].v[Source].v

\* C2: when combine has raised, no Question handed to it has had its answer set
\* or changed, or its images rewritten.
C2_RaiseCommitsNothing == c_pc = "raised" => questions = q_in

\* C3: when combine has returned, every Question of the returned output has an
\* answer in {A,B,C,D}, the value of the selected mapping at str(id).
C3_ReturnedAnswersResolved ==
    c_pc = "returned" =>
        /\ Len(OutQuestions) = Len(q_in)
        /\ \A i \in DOMAIN OutQuestions :
              LET q == OutQuestions[i].v
                  qid == PyStrOfInt(q["id"].v)
              IN  /\ "answer" \in DOMAIN q
                  /\ q["answer"].t = "str"
                  /\ q["answer"].v \in {<<"A">>, <<"B">>, <<"C">>, <<"D">>}
                  /\ qid \in DOMAIN mapping
                  /\ q["answer"].v = mapping[qid]

\* combine returned an output of at least two Questions, one of which carried
\* an answer before the call.
C3_Witness ==
    /\ c_pc = "returned"
    /\ Len(q_in) >= 2
    /\ \E i \in DOMAIN q_in : "answer" \in DOMAIN q_in[i].v

\* C5: the mapping is selected in strict priority: a valid AnswerMap is used
\* alone (the ModificationMap is ignored even when present); otherwise a valid
\* ModificationMap is used alone; the merge is attempted only when neither map
\* is valid.
C5_StrictPriority ==
    c_pc # "select" =>
        /\ SizeValid(ans_map) =>
              /\ Selected
              /\ mapping = ans_map
              /\ AssignedFrom(ans_map)
              /\ c_log[3] = "Using answer mapping"
        /\ (~SizeValid(ans_map) /\ SizeValid(mod_map)) =>
              /\ Selected
              /\ mapping = mod_map
              /\ AssignedFrom(mod_map)
              /\ c_log[3] = "Using modification mapping"
        /\ ( \/ "Merged answer and modification mapping" \in Range(c_log)
             \/ c_err = "Answer and modification mapping incomplete or invalid" ) =>
              (~SizeValid(ans_map) /\ ~SizeValid(mod_map))

\* combine returned with both maps valid and different: the ModificationMap was
\* there to use and was not.
C5_Witness ==
    /\ c_pc = "returned"
    /\ Len(q_in) >= 1
    /\ SizeValid(ans_map)
    /\ SizeValid(mod_map)
    /\ ans_map # mod_map

\* C6: when neither map alone is valid and one is non-empty, the answers come
\* from the merge in which a ModificationMap entry overrides the AnswerMap
\* entry on an overlapping id and the other ids keep their own value; when the
\* merge is valid and covers the question ids, combine succeeds.
C6_MergeOverrides ==
    ( /\ c_pc # "select"
      /\ ~SizeValid(ans_map)
      /\ ~SizeValid(mod_map)
      /\ (DOMAIN ans_map # {} \/ DOMAIN mod_map # {}) ) =>
        /\ Selected =>
              /\ DOMAIN mapping = (DOMAIN ans_map) \cup (DOMAIN mod_map)
              /\ \A k \in DOMAIN mod_map : mapping[k] = mod_map[k]
              /\ \A k \in (DOMAIN ans_map) \ (DOMAIN mod_map) : mapping[k] = ans_map[k]
              /\ AssignedFrom(SpecMerge)
        /\ (SizeValid(SpecMerge) /\ CoversIds(SpecMerge)) => Succeeds

\* combine returned from the merge of two maps that share an id, on which the
\* ModificationMap's value differs, and the AnswerMap has an id of its own.
C6_Witness ==
    /\ c_pc = "returned"
    /\ ~SizeValid(ans_map)
    /\ ~SizeValid(mod_map)
    /\ \E k \in (DOMAIN ans_map) \cap (DOMAIN mod_map) : ans_map[k] # mod_map[k]
    /\ (DOMAIN ans_map) \ (DOMAIN mod_map) # {}

\* C7: combine raises, with no output built or written, whenever neither map
\* is valid and their merge is not valid; with N >= 1 and both maps empty the
\* error is "no analyzable source".
C7_FailsWhenMergeInvalid ==
    c_pc # "select" =>
        /\ (~SizeValid(ans_map) /\ ~SizeValid(mod_map) /\ ~SizeValid(SpecMerge)) =>
              /\ c_pc = "raised"
              /\ c_out = <<>>
              /\ disk = <<>>
        /\ (Len(q_in) >= 1 /\ DOMAIN ans_map = {} /\ DOMAIN mod_map = {}) =>
              /\ c_pc = "raised"
              /\ c_err = "No analyzable tables in answer or modification PDFs"

\* combine raised on more Questions than the one valid entry of the AnswerMap,
\* with no ModificationMap.
C7_Witness ==
    /\ c_pc = "raised"
    /\ Len(q_in) >= 2
    /\ Cardinality(DOMAIN ans_map) = 1
    /\ \A k \in DOMAIN ans_map : ans_map[k] = <<"A">>
    /\ DOMAIN mod_map = {}

C10_FileOnlyAfterRoundTrip ==
    /\ disk # <<>> => c_pc = "returned"
    /\ c_pc = "raised" => disk = <<>>

IdLetterRows ==
    {rows \in UNION {[1 .. n -> (1 .. 3) \X {"A", "B", "C", "D"}] : n \in 1 .. MaxMdLines} :
        \A i, j \in DOMAIN rows : i # j => rows[i][1] # rows[j][1]}

\* The text that is one table-run of these rows and nothing else.
RowsText(rows) == JoinLines([i \in DOMAIN rows |-> RowText(rows[i][1], rows[i][2])])

\* C4: on a text that is one table-run of rows "| <id> | <letter> |" without a
\* header row, _parse_answer_map returns the entry id -> letter of every row;
\* the rows 1/A and 2/B give exactly {"1": "A", "2": "B"}.
C4_EveryRowExtracted ==
    a_pc = "done" =>
        /\ \A rows \in IdLetterRows :
              a_md = RowsText(rows) =>
                  \A i \in DOMAIN rows :
                      /\ PyStrOfInt(rows[i][1]) \in DOMAIN a_result
                      /\ a_result[PyStrOfInt(rows[i][1])] = <<rows[i][2]>>
        /\ a_md = RowsText(<< <<1, "A">>, <<2, "B">> >>) =>
              a_result = [k \in {<<"1">>, <<"2">>} |-> IF k = <<"1">> THEN <<"A">> ELSE <<"B">>]

\* ------------------------------------------------ claims on parse_questions

\* Whether the line of this text is a question marker for id: a bare integer
\* line, or a line "<id>. <rest>".
IsMarkerFor(text, id) ==
    LET stripped == Strip(text)
    IN  \/ (IntParses(stripped) /\ PyIntOfStr(stripped) = id)
        \/ (QuestionStartMatches(stripped) /\ PyIntOfStr(QuestionStartGroup1(stripped)) = id)

RECURSIVE MarkersFrom(_, _)
\* The number of lines of ds, read in order, that are a marker for the id
\* expected when they are read, the first id expected being id.
MarkersFrom(ds, id) ==
    IF ds = <<>> THEN 0
    ELSE IF IsMarkerFor(Head(ds).text, id) THEN 1 + MarkersFrom(Tail(ds), id + 1)
    ELSE MarkersFrom(Tail(ds), id)

\* N: the markers for 1, 2, ... met in order in the document read so far.
MarkersMet == MarkersFrom(doc, 1)

\* The Questions opened so far: those flushed, and the one still open.
Opened ==
    LET in_main == \/ p_pc = "main"
                   \/ (p_pc = "raised" /\ doc[Len(doc)].loop = "main")
    IN  Len(questions) + (IF in_main /\ current # <<>> THEN 1 ELSE 0)

\* C1: on a document whose lines carry the markers for 1..N in that order,
\* N >= 1, over any number of pages, parse_questions returns, and returns
\* exactly N Questions with the ids 1, 2, ..., N in list order; and `expected`
\* is always the number of Questions opened plus 1.
C1_SequentialIds ==
    /\ expected = Opened + 1
    /\ Opened = MarkersMet
    /\ MarkersMet >= 1 => p_pc # "raised"
    /\ p_pc = "done" =>
          /\ Len(questions) = MarkersMet
          /\ \A i \in DOMAIN questions : questions[i].v["id"] = PyInt(i)

\* A step of the carry-over loop: it comes to one more line of the page.
CarryStep == Len(doc') = Len(doc) + 1 /\ doc'[Len(doc')].loop = "carry"

\* The text of a carry-over line is in the Question: it ends the body, or it
\* is what follows the marker in one of the options.
CarriedInto(q, text) ==
    LET stripped == Strip(text)
        body == q.v["question"].v
        opts == q.v["options"].v
    IN  \/ /\ Len(body) >= Len(stripped)
           /\ SubSeq(body, Len(body) - Len(stripped) + 1, Len(body)) = stripped
        \/ \E k \in DOMAIN opts :
              /\ Len(stripped) >= Len(opts[k].v)
              /\ SubSeq(stripped, Len(stripped) - Len(opts[k].v) + 1, Len(stripped)) = opts[k].v
              /\ opts[k].v # stripped

\* C9: the lines at the top of a page, before any marker for `expected`, are
\* added to the Question flushed last: the call goes on, they leave the number
\* of Questions and `expected` as they are, change no other Question, and the
\* main loop does not handle them again.
C9_CarryOverOneQuestion ==
    /\ [][CarryStep =>
            /\ p_pc' # "raised"
            /\ questions # <<>>
            /\ Len(questions') = Len(questions)
            /\ expected' = expected
            /\ \A i \in 1 .. (Len(questions) - 1) : questions'[i] = questions[i]
            /\ questions'[Len(questions)].v["id"] = questions[Len(questions)].v["id"]
            /\ questions'[Len(questions)].v["images"] = questions[Len(questions)].v["images"]
            /\ CarriedInto(questions'[Len(questions)], doc'[Len(doc')].text)]_vars
    /\ [](\A i, j \in DOMAIN doc :
            (doc[i].page = doc[j].page /\ doc[i].y0 = doc[j].y0) => i = j)
    /\ [](p_pc = "done" => Len(questions) = MarkersMet)

\* A step of the main loop that handles one more line and goes on.
MainStep ==
    /\ p_pc = "main"
    /\ p_pc' = "main"
    /\ Len(doc') = Len(doc) + 1

\* The line a step handles, stripped.
StepLine == Strip(doc'[Len(doc')].text)

\* The letter an option line is marked with, under any of the three marker
\* forms: A-D followed by a separator, the full-width letter, the private-use
\* glyph; "" for a line that is no option line.
MarkerLetter(stripped) ==
    IF stripped = <<>> THEN ""
    ELSE CASE stripped[1] \in {"U+FF21", "U+E18C"} -> "A"
           [] stripped[1] \in {"U+FF22", "U+E18D"} -> "B"
           [] stripped[1] \in {"U+FF23", "U+E18E"} -> "C"
           [] stripped[1] \in {"U+FF24", "U+E18F"} -> "D"
           [] OTHER -> IF /\ Len(stripped) >= 2
                          /\ stripped[1] \in {"A", "B", "C", "D"}
                          /\ stripped[2] \in {".", "|", " ", "\t", "\n"}
                       THEN stripped[1] ELSE ""

\* The text after the marker of an option line.
TextAfterMarker(stripped) ==
    IF stripped[1] \in {"A", "B", "C", "D"}
    THEN Strip(SubSeq(stripped, 3, Len(stripped)))
    ELSE Strip(SubSeq(stripped, 2, Len(stripped)))

\* The option keys of a Question dict all lie in {A, B, C, D}.
CanonicalKeys(q) == DOMAIN q.v["options"].v \subseteq {"A", "B", "C", "D"}

\* C15: in an open Question an option line, under any of the three marker
\* forms of a letter, sets the option of that letter in {A, B, C, D} to the
\* text after the marker, whatever it held, and makes it the last option; no
\* option key outside {A, B, C, D} is ever created.
C15_OptionMarkersNormalize ==
    /\ [][(/\ MainStep
           /\ current # <<>>
           /\ ~IsMarkerFor(StepLine, expected)
           /\ MarkerLetter(StepLine) # "") =>
            LET key == MarkerLetter(StepLine)
                old == current[1].data.v
                new == current'[1].data.v
            IN  /\ DOMAIN new["options"].v = DOMAIN old["options"].v \cup {key}
                /\ new["options"].v[key] = PyStr(TextAfterMarker(StepLine))
                /\ \A k \in DOMAIN old["options"].v \ {key} :
                      new["options"].v[k] = old["options"].v[k]
                /\ new["question"] = old["question"]
                /\ last_opt' = key
                /\ questions' = questions
                /\ expected' = expected]_vars
    /\ [](/\ \A i \in DOMAIN questions : CanonicalKeys(questions[i])
          /\ current # <<>> => CanonicalKeys(current[1].data))

\* C15's case: the open Question took the option A under the three marker
\* forms in turn, the private-use glyph last, and holds the text of the last.
C15_Witness ==
    /\ p_pc = "main"
    /\ Len(doc) = 4
    /\ doc[2].text = <<"A", ".", "x">>
    /\ doc[3].text = <<"U+FF21", "y">>
    /\ doc[4].text = <<"U+E18C", " ", "z">>
    /\ current # <<>>
    /\ DOMAIN current[1].data.v["options"].v = {"A"}
    /\ current[1].data.v["options"].v["A"] = PyStr(<<"z">>)
    /\ last_opt = "A"

RECURSIVE OpenOptionFrom(_, _, _)
\* The option that is open after the lines ds, read in order: the letter of
\* the last option line since the last Question was opened, "" when there is
\* none.  id is the id expected, opt the option open, before ds.
OpenOptionFrom(ds, id, opt) ==
    IF ds = <<>> THEN opt
    ELSE IF IsMarkerFor(Head(ds).text, id) THEN OpenOptionFrom(Tail(ds), id + 1, "")
    ELSE IF id > 1 /\ MarkerLetter(Strip(Head(ds).text)) # ""
    THEN OpenOptionFrom(Tail(ds), id, MarkerLetter(Strip(Head(ds).text)))
    ELSE OpenOptionFrom(Tail(ds), id, opt)

\* The option of the last Question that is open now.
OpenOption == OpenOptionFrom(doc, 1, "")

\* C16: in the carry-over at the top of a page, a line that is neither a
\* marker for `expected` nor an option line is appended to the last open
\* option of the previous Question when it has one, and to its body only
\* when no option is open.
C16_CarryOverIntoOpenOption ==
    [][(/\ CarryStep
        /\ p_pc' # "raised"
        /\ StepLine # <<>>
        /\ MarkerLetter(StepLine) = "") =>
         LET old == questions[Len(questions)].v
             new == questions'[Len(questions)].v
         IN  IF OpenOption # ""
             THEN /\ new["options"].v[OpenOption] =
                        PyStr(old["options"].v[OpenOption].v \o <<"\n">> \o StepLine)
                  /\ new["question"] = old["question"]
             ELSE /\ new["question"] = PyStr(AppendText(old["question"].v, StepLine))
                  /\ new["options"] = old["options"]]_vars

\* A step of either loop that handles one more line and goes on.
LineStep == (MainStep \/ CarryStep) /\ p_pc' # "raised"

\* The Question a line of text goes to: the open one in the main loop, the
\* last one flushed in the carry-over; <<>> when there is none.
TextTarget ==
    IF p_pc = "main" THEN (IF current # <<>> THEN <<current[1].data>> ELSE <<>>)
    ELSE <<questions[Len(questions)]>>
TextTargetAfter ==
    IF p_pc = "main" THEN (IF current' # <<>> THEN <<current'[1].data>> ELSE <<>>)
    ELSE <<questions'[Len(questions')]>>

\* The step handles its line as ordinary text: it goes, after a newline, to
\* the open option of the Question, else to its body; without a Question it is
\* dropped.
TakenAsText ==
    IF TextTarget = <<>> THEN TextTargetAfter = <<>>
    ELSE /\ TextTargetAfter # <<>>
         /\ LET old == TextTarget[1].v
                new == TextTargetAfter[1].v
            IN  IF OpenOption # ""
                THEN /\ new["options"].v[OpenOption] =
                           PyStr(old["options"].v[OpenOption].v \o <<"\n">> \o StepLine)
                     /\ new["question"] = old["question"]
                ELSE /\ new["question"] = PyStr(AppendText(old["question"].v, StepLine))
                     /\ new["options"] = old["options"]

\* The step opens no Question, closes none and leaves `expected` as it is.
OpensNothing ==
    /\ expected' = expected
    /\ Len(questions') = Len(questions)
    /\ (current' = <<>>) <=> (current = <<>>)
    /\ q_ranges' = q_ranges

\* C17: a bare-integer line whose value is not `expected` never opens or
\* closes a Question and never changes `expected`, in the carry-over and in
\* the main loop alike: it is taken as ordinary text, appended to the last
\* open option, else to the body of the open Question, else dropped.
C17_OtherIntegerIsText ==
    [][(/\ LineStep
        /\ IntParses(StepLine)
        /\ PyIntOfStr(StepLine) # expected) => (OpensNothing /\ TakenAsText)]_vars

RECURSIVE MarkerPagesFrom(_, _)
\* The pages of the lines of ds, read in order, that are a marker for the id
\* expected when they are read: the page on which each Question was opened,
\* which is the page on which it is flushed.
MarkerPagesFrom(ds, id) ==
    IF ds = <<>> THEN <<>>
    ELSE IF IsMarkerFor(Head(ds).text, id)
         THEN <<Head(ds).page>> \o MarkerPagesFrom(Tail(ds), id + 1)
    ELSE MarkerPagesFrom(Tail(ds), id)

\* The page each Question opened so far was opened on.
MarkerPages == MarkerPagesFrom(doc, 1)

\* The images a Question holds.
ImagesOf(q) == q.v["images"].v

\* The step at the end of a page (lines 192-197).
EndPageStep == p_pc = "main" /\ p_pc' = "page"

\* C25: a Question only ever holds images of the page it was flushed on; at
\* the end of a page the Questions of earlier pages stay as they are, whether
\* or not the carry-over of the page added to them and whether or not the page
\* flushed a Question, and the k-th Question flushed on the page gets only
\* images of group k, those whose centre the k-th range is the first to hold.
C25_ImagesStayOnPage ==
    /\ [](\A i \in DOMAIN questions : \A j \in DOMAIN ImagesOf(questions[i]) :
            \E images \in PageImages(MarkerPages[i]) :
               /\ images # <<>>
               /\ ImagesOf(questions[i])[j] = PyStr(DataUriPrefix \o images[1].data))
    /\ [][EndPageStep =>
            LET n == Len(q_ranges')
                m == Len(questions') - n
            IN  /\ m >= 0
                /\ \A i \in 1 .. m : questions'[i] = questions[i]
                /\ \A k \in 1 .. n : \A j \in DOMAIN ImagesOf(questions'[m + k]) :
                      \E images \in PageImages(page_no) :
                         /\ images # <<>>
                         /\ ImagesOf(questions'[m + k])[j] = PyStr(DataUriPrefix \o images[1].data)
                         /\ RangeOfImage(images[1], q_ranges') = k]_vars

\* C25's case: Question 1 was flushed on page 1 and holds the image of page 1;
\* the carry-over of page 2 added a line to it; Question 2 was flushed on
\* page 2 and holds the image of page 2, and Question 1 holds no other.
C25_Witness ==
    /\ p_pc = "done"
    /\ page_no = 2
    /\ Len(questions) = 2
    /\ MarkerPages = <<1, 2>>
    /\ \E d \in DOMAIN doc : doc[d].page = 2 /\ doc[d].loop = "carry"
    /\ ImagesOf(questions[1]) = <<PyStr(DataUriPrefix \o <<"i", "1">>)>>
    /\ ImagesOf(questions[2]) = <<PyStr(DataUriPrefix \o <<"i", "2">>)>>

\* ------------------------------------------------- claims on the validator

\* The Questions of an output: those at any place of any list of any source of
\* any subject.
QuestionsOf(data) ==
    UNION { UNION { Range(data.v["subjects"].v[subj].v[src].v) :
                        src \in DOMAIN data.v["subjects"].v[subj].v } :
                subj \in DOMAIN data.v["subjects"].v }

\* A Question without the field `answer`, or with an answer outside A-D.
Unanswered(q) ==
    \/ "answer" \notin DOMAIN q.v
    \/ q.v["answer"] \notin {PyStr(<<"A">>), PyStr(<<"B">>), PyStr(<<"C">>), PyStr(<<"D">>)}

WellFormed(q) ==
    /\ q.t = "dict"
    /\ {"id", "question", "answer"} \subseteq DOMAIN q.v
    /\ q.v["id"].t = "int"
    /\ q.v["question"].t = "str"
    /\ ~Unanswered(q)
    /\ ("options" \in DOMAIN q.v => q.v["options"].t = "dict")
    /\ ("images" \in DOMAIN q.v => q.v["images"].t = "list")

\* C21: validate_output_structure returns True only for outputs all of whose
\* Questions are well-formed; in particular an output with a Question whose
\* `question` is present but not a string is rejected.
C21_TrueOnlyIfWellFormed ==
    (v_pc = "done" /\ v_result = <<TRUE>>) => \A q \in QuestionsOf(v_in) : WellFormed(q)

\* ------------------------------------------------ claims on _extract_images

\* Whether the closed interval of range r holds the vertical centre of img.
CentreIn(img, r) ==
    /\ 2 * r[1] <= img.rect[1] + img.rect[2]
    /\ img.rect[1] + img.rect[2] <= 2 * r[2]

\* The ranges that hold the centre of img.
RangesHolding(img) == {r \in DOMAIN i_ranges : CentreIn(img, i_ranges[r])}

\* The images the Question of range r got on this page.
GotOnPage(r) ==
    LET q == Len(i_qs) - Len(i_ranges) + r
    IN  SubSeq(i_result[q].v["images"].v,
               Len(i_qs[q].v["images"].v) + 1, Len(i_result[q].v["images"].v))

\* The images whose first holding range is r, in the order the page lists them.
DueTo(r) ==
    LET mine == SelectSeq(i_images, LAMBDA img :
                    r \in RangesHolding(img) /\ \A k \in RangesHolding(img) : r <= k)
    IN  [k \in DOMAIN mine |-> PyStr(DataUriPrefix \o mine[k].data)]

\* C13: every image of a page goes to at most one Question, that of the first
\* range whose closed interval holds the image's vertical centre (so the
\* earlier of two ranges that share the boundary the centre lies on); an image
\* whose centre is in no range goes to none; the images of one Question keep
\* the order in which the page lists them.
C13_ImageToFirstRange ==
    i_pc = "done" =>
        /\ Len(i_result) = Len(i_qs)
        /\ \A r \in DOMAIN i_ranges : GotOnPage(r) = DueTo(r)
        /\ \A q \in 1 .. (Len(i_qs) - Len(i_ranges)) : i_result[q] = i_qs[q]
        /\ \A k \in DOMAIN i_images :
              Cardinality({r \in DOMAIN i_ranges :
                  \E j \in DOMAIN GotOnPage(r) :
                      GotOnPage(r)[j] = PyStr(DataUriPrefix \o i_images[k].data)}) <= 1

\* C13's case: two images, listed in this order, have their centre on the
\* boundary two consecutive ranges share, and the first range got both.
C13_Witness ==
    /\ i_pc = "done"
    /\ Len(i_ranges) = 2
    /\ i_ranges[1][1] < i_ranges[1][2]
    /\ i_ranges[2][1] < i_ranges[2][2]
    /\ Len(i_images) = 2
    /\ \A k \in DOMAIN i_images :
          i_images[k].rect[1] + i_images[k].rect[2] = 2 * i_ranges[1][2]
    /\ Len(GotOnPage(1)) = 2
    /\ GotOnPage(2) = <<>>

\* ------------------------------------------- claims on the letter fallback

\* The letter a character of the text stands for: A-D for itself, a
\* full-width letter for its ASCII form; "" for any other character.
LetterOf(c) ==
    CASE c \in {"A", "B", "C", "D"} -> c
      [] c = "U+FF21" -> "A"
      [] c = "U+FF22" -> "B"
      [] c = "U+FF23" -> "C"
      [] c = "U+FF24" -> "D"
      [] OTHER -> ""

RECURSIVE LettersFound(_)
\* The letters of a text, in reading order.
LettersFound(md) ==
    IF md = <<>> THEN <<>>
    ELSE IF LetterOf(Head(md)) # "" THEN <<LetterOf(Head(md))>> \o LettersFound(Tail(md))
    ELSE LettersFound(Tail(md))

\* The mapping that gives id i the i-th of these letters.
Positional(letters) ==
    [k \in {PyStrOfInt(i) : i \in DOMAIN letters} |->
        <<letters[CHOOSE i \in DOMAIN letters : PyStrOfInt(i) = k]>>]

\* The mapping the table-runs of the text yield.
FromTables(md) == BestAnswerTable(ExtractMdTables(md), EmptyDict)

\* C14: on a text without a table, _parse_answer_map gives id i the i-th
\* letter found in reading order (A-D or full-width, normalized to A-D), for
\* i = 1..N; "A B C" gives {"1": "A", "2": "B", "3": "C"}.  The fallback is
\* taken only when no table-run yields an entry.
C14_PositionalFallback ==
    a_pc = "done" =>
        /\ (\A i \in DOMAIN a_md : a_md[i] # "|") => a_result = Positional(LettersFound(a_md))
        /\ a_md = <<"A", " ", "B", " ", "C">> =>
              a_result = [k \in {<<"1">>, <<"2">>, <<"3">>} |->
                             CASE k = <<"1">> -> <<"A">>
                               [] k = <<"2">> -> <<"B">>
                               [] k = <<"3">> -> <<"C">>]
        /\ DOMAIN FromTables(a_md) # {} => a_result = FromTables(a_md)

\* C14's case: a text of two lines without a table, with a full-width letter
\* among its letters, gave each of its six letters the id of its place.
C14_Witness ==
    /\ a_pc = "done"
    /\ a_md = <<"A", " ", "B", " ", "C", "\n", "A", " ", "U+FF22", " ", "C">>
    /\ a_result = Positional(<<"A", "B", "C", "A", "B", "C">>)

\* The letter a character stands for when the private-use glyphs count too.
GlyphLetterOf(c) ==
    CASE c = "U+E18C" -> "A"
      [] c = "U+E18D" -> "B"
      [] c = "U+E18E" -> "C"
      [] c = "U+E18F" -> "D"
      [] OTHER -> LetterOf(c)

RECURSIVE GlyphLettersFound(_)
\* The letters of a text in reading order, the private-use glyphs among them.
GlyphLettersFound(md) ==
    IF md = <<>> THEN <<>>
    ELSE IF GlyphLetterOf(Head(md)) # ""
    THEN <<GlyphLetterOf(Head(md))>> \o GlyphLettersFound(Tail(md))
    ELSE GlyphLettersFound(Tail(md))

\* C19: the positional fallback counts every letter-equivalent glyph in
\* reading order, each of the four private-use glyphs among them: a glyph at
\* place i among the letters of the text gives the entry i -> its letter.
C19_FallbackCountsGlyphs ==
    (a_pc = "done" /\ \A i \in DOMAIN a_md : a_md[i] # "|") =>
        a_result = Positional(GlyphLettersFound(a_md))

\* -------------------------------------------- claims on several table-runs

\* The mapping each table-run of the text yields, for the answers and for the
\* modifications.
AnswerRunMaps ==
    LET tables == ExtractMdTables(a_md)
    IN  [k \in DOMAIN tables |-> AnswerRowsMap(DataRows(tables[k]), EmptyDict)]
ModRunMaps ==
    LET tables == ExtractMdTables(a_md)
    IN  [k \in DOMAIN tables |-> ModRowsMap(DataRows(tables[k]), EmptyDict)]

\* Of these mappings the one with the most entries, the first of those with
\* equally many.
MostEntriesFirst(maps) ==
    maps[CHOOSE k \in DOMAIN maps :
            /\ \A j \in DOMAIN maps : Cardinality(DOMAIN maps[j]) <= Cardinality(DOMAIN maps[k])
            /\ \A j \in 1 .. (k - 1) : Cardinality(DOMAIN maps[j]) < Cardinality(DOMAIN maps[k])]

\* Some run yields an entry.
SomeEntry(maps) == \E k \in DOMAIN maps : DOMAIN maps[k] # {}

\* Both calls have returned on a text of several table-runs.
SeveralRunsDone == a_pc = "done" /\ m_pc = "done" /\ Len(AnswerRunMaps) >= 2

\* C20, as stated: on a text of several table-runs _parse_answer_map and
\* _parse_mod_map return the mapping of the run with the most entries, the
\* first of those with equally many, never a union of runs.
C20_MostEntriesRun ==
    SeveralRunsDone =>
        /\ a_result = MostEntriesFirst(AnswerRunMaps)
        /\ m_result = MostEntriesFirst(ModRunMaps)

\* C20, amended: the same whenever some run yields an entry.
C20_MostEntriesRunIfAny ==
    SeveralRunsDone =>
        /\ SomeEntry(AnswerRunMaps) => a_result = MostEntriesFirst(AnswerRunMaps)
        /\ SomeEntry(ModRunMaps) => m_result = MostEntriesFirst(ModRunMaps)

\* C20's case: two runs yield one entry each, not the same one, for the
\* answers as for the modifications, and the first run's entry is returned.
C20_Witness ==
    /\ SeveralRunsDone
    /\ Cardinality(DOMAIN AnswerRunMaps[1]) = 1
    /\ Cardinality(DOMAIN AnswerRunMaps[2]) = 1
    /\ AnswerRunMaps[1] # AnswerRunMaps[2]
    /\ ModRunMaps[1] # ModRunMaps[2]
    /\ a_result = AnswerRunMaps[1]
    /\ m_result = ModRunMaps[1]

\* ------------------------------------------------ claims on the worker threads

\* The check points: the flag is read after segmentation (line 125), after
\* extraction (line 137) and before the next FileSet starts (line 171).
CheckPoints == {"check1", "check2", "loop"}

\* A thread that runs no stage any more.
Stopped(w) == t_pc[w] \in {"after", "finished"}

\* Thread w takes a step.
StepOf(w) == t_pc'[w] # t_pc[w]

\* C22: a thread that reaches a check point with the flag set goes on to no
\* stage and to no FileSet: it leaves the loop or ends, from there it never
\* comes back to a stage, and a combined output is only ever written by a
\* thread that is in its combine stage.
C22_StopAtCheckPoints ==
    /\ [][\A w \in Workers :
            (t_pc[w] \in CheckPoints /\ stop_flag /\ StepOf(w))
                => /\ t_pc'[w] \in {"after", "finished"}
                   /\ t_key'[w] = t_key[w]
                   /\ out_dir' = out_dir]_vars
    /\ [][\A w \in Workers :
            Stopped(w) => /\ t_pc'[w] \in {"after", "finished"}
                          /\ t_key'[w] = t_key[w]]_vars
    /\ [][\A k \in sets :
            (<<"combined", k>> \in out_dir' \ out_dir)
                => \E w \in Workers : t_pc[w] = "combine" /\ t_key[w] = k /\ StepOf(w)]_vars

\* C22's case: the one thread, started by Process All, has left its loop with
\* the flag set, after the segmentation and the extraction of the first
\* FileSet went through; no combined output exists and the second FileSet was
\* never started.
C22_Witness ==
    /\ t_kind = [w \in Workers |-> IF w = 1 THEN "all" ELSE "none"]
    /\ t_pc[1] = "after"
    /\ stop_flag
    /\ gui_log = <<>>
    /\ t_key[1] = 1
    /\ t_keys[1] # <<>>
    /\ out_dir = {<<"questions", 1>>, <<"md", 1>>}

\* Thread w is inside process_set: past line 117 and not yet returned.
InPipeline(w) == t_pc[w] \in {"segment", "check1", "extract", "check2", "combine"}

\* What the thread whose pipeline is under way has written so far: the flag
\* (line 159/169), App.files (line 117) and, once the segmentation is through,
\* App.questions (line 120) and the files of its FileSet in OUT_DIR.
Wrote(w) ==
    {<<"attribute", "stop_flag">>, <<"attribute", "files">>}
    \cup (IF t_pc[w] \in {"check1", "extract", "check2", "combine"}
          THEN {<<"attribute", "questions">>, <<"questions", t_key[w]>>} ELSE {})
    \cup (IF t_pc[w] \in {"check2", "combine"} THEN {<<"md", t_key[w]>>} ELSE {})

\* C23: two pipelines under way at the same time have written no variable and
\* no output file in common, and while a pipeline is under way no other thread
\* writes the flag, App.files, App.questions or OUT_DIR.
C23_PipelinesShareNothing ==
    /\ [](\A w1, w2 \in Workers :
            (w1 # w2 /\ InPipeline(w1) /\ InPipeline(w2)) => Wrote(w1) \cap Wrote(w2) = {})
    /\ [][\A w1, w2 \in Workers :
            (w1 # w2 /\ InPipeline(w1) /\ StepOf(w2))
                => UNCHANGED <<stop_flag, files, app_questions, out_dir>>]_vars

\* C24: a thread that was running when force_stop was called finds the flag
\* set at the first check point it reaches (line 125, line 137, or line 171
\* with a FileSet left to take), and leaves its loop or ends there without
\* starting another FileSet.
C24_StopNeverLost ==
    [][\A w \in stops :
          (t_pc[w] \in CheckPoints /\ (t_pc[w] = "loop" => t_keys[w] # <<>>) /\ StepOf(w))
              => /\ stop_flag
                 /\ t_pc'[w] \in {"after", "finished"}
                 /\ t_key'[w] = t_key[w]]_vars

====
